---------------------------- MODULE Spec2Model ----------------------------
(***************************************************************************)
(* A model of the logistics dashboard of src/index.tsx: the utility        *)
(* functions (dates, terminal names), the KPI pages' filters and the       *)
(* aggregates they derive from the in-memory shipment sequence.            *)
(*                                                                         *)
(* Time is counted in whole hours since 1970-01-01T00:00Z (a JavaScript    *)
(* Date counts milliseconds; every date of the model falls on a whole      *)
(* hour).  Strings are TLA+ strings; the JavaScript value undefined is the *)
(* string Undefined.                                                       *)
(***************************************************************************)
EXTENDS Integers, Sequences, FiniteSets, TLC

VARIABLES
    tz,          \* the machine's local time zone: local time = UTC + tz hours
    cdbStart,    \* calculateDaysBetween: first argument
    cdbEnd,      \* calculateDaysBetween: second argument
    cdbCalled,   \* calculateDaysBetween has returned
    cdbResult,   \* calculateDaysBetween: the value returned
    ntnName,     \* normalizeTerminalName: the argument
    ntnCalled,   \* normalizeTerminalName has returned
    ntnResult,   \* normalizeTerminalName: the value returned
    shipments,   \* App: the in-memory shipment sequence
    activePage,  \* App: the page shown
    kpiTab,      \* KPIsPage: activeTab ("" while the page is not mounted)
    kpiFilters,  \* KPIsPage: filters
    brokFilters, \* BrokerageKPIsPage: filters
    pdfValue,    \* parseDateFromExcel: the argument (a spreadsheet cell)
    pdfCalled,   \* parseDateFromExcel has returned or thrown
    pdfResult,   \* parseDateFromExcel: the string returned, or the throw
    user,        \* App: the signed-in Firebase user (NoUser for null)
    userData,    \* App: the user's profile (Null for null)
    profiles,    \* Firestore collection 'users': uid -> the profile stored
    isLoading,   \* App: no auth-state notification handled to its end yet
    authLookup,  \* the uids whose profile lookups are awaited, as started
    authEvents,  \* auth-state notifications delivered so far
    fetching,    \* fetchShipments calls awaiting the collection: for each,
                 \* the states of the collection since its get() was called
    dataLoading, \* App: dataLoading
    dataError,   \* App: dataError
    store,       \* Firestore collection 'shipments': document id -> fields
    isUploadModalOpen, \* ImportsPage: isUploadModalOpen
    file,        \* UploadModal: the selected file (NoFile for null)
    isUploading, \* UploadModal: isUploading
    modalError,  \* UploadModal: error
    modalSuccess,\* UploadModal: success
    uploadPc,    \* handleUpload: where the started attempt stands
    batch,       \* the attempt: the sheet read, the records handed to onUpload
    uploads,     \* upload attempts started so far
    dataLength,  \* LineChart: data.length
    viewRange,   \* LineChart: viewRange
    pageState,   \* App: pageState, handed to ImportsPage as initialFilters
    statusFilter,\* ImportsPage: statusFilter
    searchTerm   \* ImportsPage: searchTerm

daysVars == <<cdbStart, cdbEnd, cdbCalled, cdbResult>>
termVars == <<ntnName, ntnCalled, ntnResult>>
appVars == <<shipments, activePage, kpiTab, kpiFilters, brokFilters>>

parseVars == <<pdfValue, pdfCalled, pdfResult>>
authVars == <<user, userData, profiles, isLoading, authLookup, authEvents>>
fetchVars == <<fetching, dataLoading, dataError>>
uploadVars == <<isUploadModalOpen, file, isUploading, modalError, modalSuccess, uploadPc, batch,
               uploads>>
ioVars == <<authVars, fetchVars, store, uploadVars>>
zoomVars == <<dataLength, viewRange>>
importsVars == <<pageState, statusFilter, searchTerm>>
pageVars == <<zoomVars, importsVars>>

vars == <<tz, daysVars, termVars, appVars, parseVars, ioVars, pageVars>>

---------------------------------------------------------------------------
(* JavaScript values *)

Undefined == "<undefined>"

\* !x for a string-or-undefined x
Falsy(x) == x = Undefined \/ x = ""

Null == [null |-> TRUE, v |-> 0]
Num(n) == [null |-> FALSE, v |-> n]

Abs(x) == IF x < 0 THEN -x ELSE x

Max(S) == CHOOSE x \in S : \A y \in S : y <= x

\* the element of a set of one element; written The({ e : x \in {v} }) it
\* is e with x standing for the value of v, computed once
The(S) == CHOOSE x \in S : TRUE

\* Math.ceil(a / b) for a >= 0, b > 0
CeilDiv(a, b) == (a + b - 1) \div b

\* Math.floor(a / b)
FloorDiv(a, b) == a \div b

\* undefined where a terminal name (a sequence of characters) is expected
UndefinedName == <<Undefined>>

Range(f) == {f[i] : i \in DOMAIN f}

---------------------------------------------------------------------------
(* The parts of the state a specification leaves out stay as follows *)

DaysIdle ==
    /\ cdbStart = Undefined
    /\ cdbEnd = Undefined
    /\ cdbCalled = FALSE
    /\ cdbResult = Null

TermIdle ==
    /\ ntnName = UndefinedName
    /\ ntnCalled = FALSE
    /\ ntnResult = <<>>

\* a spreadsheet cell as sheet_to_json hands it over: undefined for a blank
\* cell, a string, a number (NaN apart), or null
CellUndefined == [t |-> "undefined", s |-> "", n |-> 0]
CellNull == [t |-> "null", s |-> "", n |-> 0]
CellNaN == [t |-> "nan", s |-> "", n |-> 0]
CellString(str) == [t |-> "string", s |-> str, n |-> 0]
CellNumber(num) == [t |-> "number", s |-> "", n |-> num]

\* what a call hands back: the string returned, or the error thrown
Returned(str) == [threw |-> FALSE, text |-> str]
Thrown == [threw |-> TRUE, text |-> ""]

ParseIdle ==
    /\ pdfValue = CellUndefined
    /\ pdfCalled = FALSE
    /\ pdfResult = Returned("")

\* no chart mounted
\* useState({}) of pageState
NoPageState == [statusFilter |-> Undefined]

PagesIdle ==
    /\ dataLength = 0
    /\ viewRange = [start |-> 0, end |-> 0]
    /\ pageState = NoPageState
    /\ statusFilter = "All"
    /\ searchTerm = ""

NoUser == ""
NoFile == [kind |-> "none", headers |-> <<>>, rows |-> <<>>]
NoDocuments == [k \in {} |-> <<>>]

\* the users of Firebase Authentication: uid -> displayName and email, ""
\* for null
FirebaseUsers ==
    ( "uid-1" :> [displayName |-> "", email |-> ""] @@
      "uid-2" :> [displayName |-> "Bia", email |-> "bia@example.com"] )

\* the profile held for a user who has no document in 'users'
DefaultProfile_admin(uid) ==
    [id |-> uid,
     name |-> IF FirebaseUsers[uid].displayName = "" THEN "New User"
              ELSE FirebaseUsers[uid].displayName,
     username |-> FirebaseUsers[uid].email,
     role |-> "ADMIN"]

\* { id: firebaseUser.uid, name: firebaseUser.displayName || 'New User',
\*   username: firebaseUser.email || '', role: 'COMEX' }
DefaultProfile(uid) ==
    [id |-> uid,
     name |-> IF FirebaseUsers[uid].displayName = "" THEN "New User"
              ELSE FirebaseUsers[uid].displayName,
     username |-> FirebaseUsers[uid].email,
     role |-> "COMEX"]

UploadIdle ==
    /\ isUploadModalOpen = FALSE
    /\ file = NoFile
    /\ isUploading = FALSE
    /\ modalError = ""
    /\ modalSuccess = ""
    /\ uploadPc = "idle"
    /\ batch = [sheet |-> NoFile, shipments |-> <<>>]
    /\ uploads = 0

\* App as constructed: the spinner shown, no notification from auth yet
IoIdle ==
    /\ user = NoUser
    /\ userData = Null
    /\ profiles = NoDocuments
    /\ isLoading = TRUE
    /\ authLookup = <<>>
    /\ authEvents = 0
    /\ fetching = <<>>
    /\ dataLoading = TRUE
    /\ dataError = ""
    /\ store = NoDocuments
    /\ UploadIdle

\* a user is signed in and the pages are shown
IoSignedIn ==
    /\ user = "uid-1"
    /\ userData = DefaultProfile("uid-1")
    /\ profiles = NoDocuments
    /\ isLoading = FALSE
    /\ authLookup = <<>>
    /\ authEvents = 1
    /\ fetching = <<>>
    /\ dataLoading = FALSE
    /\ dataError = ""
    /\ store = NoDocuments
    /\ UploadIdle

\* 'All' as a filter's year or month: no year and no month equals it
All == -1

\* 'All' as the analyst of the Brokerage filter, a string of characters like
\* the analysts' names
AllName == <<"A", "l", "l">>

\* KPIsPage and BrokerageKPIsPage hold no state while they are not mounted
NoKpiFilters == [cargo |-> <<>>, year |-> All, month |-> All]
NoBrokFilters == [analyst |-> <<>>, month |-> "", year |-> "", cargo |-> ""]

\* App as constructed: the Dashboard page, no shipment fetched yet
AppIdle ==
    /\ shipments = <<>>
    /\ activePage = "Dashboard"
    /\ kpiTab = ""
    /\ kpiFilters = NoKpiFilters
    /\ brokFilters = NoBrokFilters

---------------------------------------------------------------------------
(* The Date object *)

TimeZones == {-3, 0, 9}

HoursPerDay == 24

\* days from 1970-01-01 to the civil date y-m-d (m in 1..12)
DaysFromCivil(y, m, d) ==
    LET yy  == IF m <= 2 THEN y - 1 ELSE y
        era == yy \div 400
        yoe == yy - era * 400
        mp  == IF m > 2 THEN m - 3 ELSE m + 9
        doy == (153 * mp + 2) \div 5 + d - 1
        doe == yoe * 365 + yoe \div 4 - yoe \div 100 + doy
    IN  era * 146097 + doe - 719468

\* the civil date of day z (days from 1970-01-01)
CivilFromDays(z) ==
    LET zz  == z + 719468
        era == zz \div 146097
        doe == zz - era * 146097
        yoe == (doe - doe \div 1460 + doe \div 36524 - doe \div 146096) \div 365
        doy == doe - (365 * yoe + yoe \div 4 - yoe \div 100)
        mp  == (5 * doy + 2) \div 153
        d   == doy - (153 * mp + 2) \div 5 + 1
        m   == IF mp < 10 THEN mp + 3 ELSE mp - 9
        y   == yoe + era * 400 + (IF m <= 2 THEN 1 ELSE 0)
    IN  [y |-> y, m |-> m, d |-> d]

\* The date strings of the model, with the fields their text spells.
\* 'YYYY-MM-DD' is what the importer stores (toISOString().split('T')[0]).
DateOnlyText ==
    ( "2023-12-31" :> <<2023, 12, 31>> @@ "2024-01-01" :> <<2024, 1, 1>> @@
      "2024-01-03" :> <<2024, 1, 3>>   @@ "2024-01-15" :> <<2024, 1, 15>> @@
      "2024-02-10" :> <<2024, 2, 10>>  @@ "2024-06-30" :> <<2024, 6, 30>> @@
      "2024-07-01" :> <<2024, 7, 1>>   @@ "2024-07-20" :> <<2024, 7, 20>> )

\* 'YYYY-MM-DDTHH:00': a date-time without zone, read as local time
DateTimeText ==
    ( "2024-01-01T18:00" :> <<2024, 1, 1, 18>> @@
      "2024-01-02T06:00" :> <<2024, 1, 2, 6>> )

NaN == [valid |-> FALSE, t |-> 0]

\* new Date(s) for a string s: a date-only ISO string is UTC midnight, a
\* date-time string without zone is local time, anything else is invalid
NewDate(s) ==
    IF s \in DOMAIN DateOnlyText
    THEN LET f == DateOnlyText[s]
         IN  [valid |-> TRUE, t |-> DaysFromCivil(f[1], f[2], f[3]) * HoursPerDay]
    ELSE IF s \in DOMAIN DateTimeText
    THEN LET f == DateTimeText[s]
         IN  [valid |-> TRUE,
              t |-> DaysFromCivil(f[1], f[2], f[3]) * HoursPerDay + f[4] - tz]
    ELSE NaN

\* isNaN(date.getTime())
IsNaNTime(date) == ~date.valid

LocalCivil(date) == CivilFromDays(FloorDiv(date.t + tz, HoursPerDay))

\* Date.prototype.getFullYear: the year in local time
GetFullYear(date) == LocalCivil(date).y

\* Date.prototype.getMonth: the month in local time, 0..11
GetMonth(date) == LocalCivil(date).m - 1

---------------------------------------------------------------------------
(* normalizeTerminalName *)

(* A terminal name is a sequence of characters, each a one-character       *)
(* string, so that lowercasing, accent stripping and substring search act  *)
(* on the text itself.                                                     *)

\* String.prototype.toLowerCase, per character
LowerOf ==
    ( "A" :> "a" @@ "B" :> "b" @@ "C" :> "c" @@ "D" :> "d" @@ "E" :> "e" @@
      "F" :> "f" @@ "G" :> "g" @@ "H" :> "h" @@ "I" :> "i" @@ "J" :> "j" @@
      "K" :> "k" @@ "L" :> "l" @@ "M" :> "m" @@ "N" :> "n" @@ "O" :> "o" @@
      "P" :> "p" @@ "Q" :> "q" @@ "R" :> "r" @@ "S" :> "s" @@ "T" :> "t" @@
      "U" :> "u" @@ "V" :> "v" @@ "W" :> "w" @@ "X" :> "x" @@ "Y" :> "y" @@
      "Z" :> "z" @@ "Ó" :> "ó" @@ "Í" :> "í" )

ToLowerCase(str) ==
    [i \in DOMAIN str |-> IF str[i] \in DOMAIN LowerOf THEN LowerOf[str[i]] ELSE str[i]]

\* normalize("NFD") and the removal of the combining marks U+0300..U+036F:
\* an accented letter decomposes into its base letter and a combining
\* mark, which is removed
BaseOf == ( "ó" :> "o" @@ "í" :> "i" @@ "Ó" :> "O" @@ "Í" :> "I" )

StripAccents(str) ==
    [i \in DOMAIN str |-> IF str[i] \in DOMAIN BaseOf THEN BaseOf[str[i]] ELSE str[i]]

\* String.prototype.includes
Includes(str, part) ==
    \E i \in 1..(Len(str) - Len(part) + 1) : SubSeq(str, i, i + Len(part) - 1) = part

TxtTecon == <<"t", "e", "c", "o", "n">>
TxtTeca == <<"t", "e", "c", "a">>
TxtClia == <<"c", "l", "i", "a">>
TxtEmporio == <<"e", "m", "p", "o", "r", "i", "o">>
TxtIntermaritima == <<"i", "n", "t", "e", "r", "m", "a", "r", "i", "t", "i", "m", "a">>
TxtTpc == <<"t", "p", "c">>

TECON == <<"T", "E", "C", "O", "N">>
TECA == <<"T", "E", "C", "A">>
CLIAEmporio == <<"C", "L", "I", "A", " ", "E", "m", "p", "ó", "r", "i", "o">>
Intermaritima == <<"I", "n", "t", "e", "r", "m", "a", "r", "i", "t", "i", "m", "a">>
TPC == <<"T", "P", "C">>
NA == <<"N", "/", "A">>

\* the patterns looked for in name and the lowered name returned: the two
\* strings exchanged
normalizeTerminalName_swapped(name) ==
    IF name = UndefinedName \/ name = <<>> THEN NA
    ELSE LET lowerName == StripAccents(ToLowerCase(name))
         IN  IF Includes(name, TxtTecon) THEN TECON
             ELSE IF Includes(name, TxtTeca) THEN TECA
             ELSE IF Includes(name, TxtClia) /\ Includes(name, TxtEmporio)
                  THEN CLIAEmporio
             ELSE IF Includes(name, TxtIntermaritima) THEN Intermaritima
             ELSE IF Includes(name, TxtTpc) THEN TPC
             ELSE lowerName

normalizeTerminalName(name) ==
    IF name = UndefinedName \/ name = <<>> THEN NA
    ELSE LET lowerName == StripAccents(ToLowerCase(name))
         IN  IF Includes(lowerName, TxtTecon) THEN TECON
             ELSE IF Includes(lowerName, TxtTeca) THEN TECA
             ELSE IF Includes(lowerName, TxtClia) /\ Includes(lowerName, TxtEmporio)
                  THEN CLIAEmporio
             ELSE IF Includes(lowerName, TxtIntermaritima) THEN Intermaritima
             ELSE IF Includes(lowerName, TxtTpc) THEN TPC
             ELSE name

\* the pieces terminal names are put together from
NameFragments ==
    { TECON, TxtTecon, <<"T", "e">>, <<"c", "o", "n">>, TECA, <<"c", "a">>,
      <<"C", "L", "I", "A">>, TxtClia, <<" ">>,
      <<"E", "m", "p", "ó", "r", "i", "o">>, <<"E", "M", "P", "Ó", "R", "I", "O">>,
      TxtEmporio, <<"I", "n", "t", "e", "r", "m", "a", "r", "í", "t", "i", "m", "a">>,
      <<"I", "n", "t", "e", "r">>, <<"m", "a", "r", "i", "t", "i", "m", "a">>,
      TPC, TxtTpc, NA, <<"X">>, <<"S", "a", "n", "t", "o", "s">> }

MaxFragments == 2

RECURSIVE NamesOf(_)
NamesOf(n) ==
    IF n = 0 THEN {<<>>}
    ELSE LET shorter == NamesOf(n - 1)
         IN  shorter \cup {a \o b : a \in shorter, b \in NameFragments}

TerminalNames == NamesOf(MaxFragments) \cup {UndefinedName}

InitTerm ==
    /\ tz = 0
    /\ ntnName \in TerminalNames
    /\ ntnCalled = FALSE
    /\ ntnResult = <<>>
    /\ DaysIdle
    /\ AppIdle
    /\ ParseIdle
    /\ PagesIdle
    /\ IoIdle

CallNormalizeTerminalName ==
    /\ ~ntnCalled
    /\ ntnCalled' = TRUE
    /\ ntnResult' = normalizeTerminalName(ntnName)
    /\ UNCHANGED <<tz, ntnName, daysVars, appVars, parseVars, ioVars, pageVars>>

\* a grouping key is looked up again under its normalized form
\* (TERMINAL_COLOR_MAP, the chart legends): the result becomes the argument
UseAsName ==
    /\ ntnCalled
    /\ ntnName' = ntnResult
    /\ ntnCalled' = FALSE
    /\ ntnResult' = <<>>
    /\ UNCHANGED <<tz, daysVars, appVars, parseVars, ioVars, pageVars>>

NextTerm == CallNormalizeTerminalName \/ UseAsName

SpecTerm == InitTerm /\ [][NextTerm]_vars

CanonicalNames == {TECON, TECA, CLIAEmporio, Intermaritima, TPC, NA}

\* C6: normalizeTerminalName is idempotent: normalizing a returned name
\* returns that name again, so every canonical name and every name passed
\* through unmatched is a fixed point.
C6_Idempotent ==
    ntnCalled =>
        /\ normalizeTerminalName(ntnResult) = ntnResult
        /\ \A c \in CanonicalNames : normalizeTerminalName(c) = c

\* an accented, mixed-case name has been folded into its canonical name
C6_Witness ==
    /\ ntnCalled
    /\ ntnName = <<"C", "L", "I", "A">> \o <<"E", "M", "P", "Ó", "R", "I", "O">>
    /\ ntnResult = CLIAEmporio

---------------------------------------------------------------------------
(* calculateDaysBetween *)

calculateDaysBetween_floor(start, end) ==
    IF Falsy(start) \/ Falsy(end) THEN Null
    ELSE LET startDate == NewDate(start)
             endDate   == NewDate(end)
         IN  IF IsNaNTime(startDate) \/ IsNaNTime(endDate) THEN Null
             ELSE Num(FloorDiv(Abs(endDate.t - startDate.t), HoursPerDay))

calculateDaysBetween(start, end) ==
    IF Falsy(start) \/ Falsy(end) THEN Null
    ELSE LET startDate == NewDate(start)
             endDate   == NewDate(end)
         IN  IF IsNaNTime(startDate) \/ IsNaNTime(endDate) THEN Null
             ELSE LET diffTime == Abs(endDate.t - startDate.t)
                  IN  Num(CeilDiv(diffTime, HoursPerDay))

DateInputs ==
    {Undefined, "", "not a date", "2023-12-31", "2024-01-01", "2024-01-03",
     "2024-07-01", "2024-01-01T18:00", "2024-01-02T06:00"}

InitDays ==
    /\ tz \in TimeZones
    /\ cdbStart \in DateInputs
    /\ cdbEnd \in DateInputs
    /\ cdbCalled = FALSE
    /\ cdbResult = Null
    /\ TermIdle
    /\ AppIdle
    /\ ParseIdle
    /\ PagesIdle
    /\ IoIdle

CallCalculateDaysBetween ==
    /\ ~cdbCalled
    /\ cdbCalled' = TRUE
    /\ cdbResult' = calculateDaysBetween(cdbStart, cdbEnd)
    /\ UNCHANGED <<tz, cdbStart, cdbEnd, termVars, appVars, parseVars, ioVars, pageVars>>

\* the caller moves on to the next pair: the end date becomes the start
\* (clearance -> delivery in lineChartData)
NextPair ==
    /\ cdbCalled
    /\ \E e \in DateInputs :
        /\ cdbStart' = cdbEnd
        /\ cdbEnd' = e
    /\ cdbCalled' = FALSE
    /\ cdbResult' = Null
    /\ UNCHANGED <<tz, termVars, appVars, parseVars, ioVars, pageVars>>

NextDays == CallCalculateDaysBetween \/ NextPair

SpecDays == InitDays /\ [][NextDays]_vars

\* C7: calculateDaysBetween returns null when either argument is missing or
\* unparseable; otherwise the ceiling of the absolute time difference over
\* one day: a non-negative whole number, the same with the arguments
\* swapped, and 2 for 2024-01-01 and 2024-01-03.
Unusable(s) == s = Undefined \/ s = "" \/ ~NewDate(s).valid

C7_DaysBetween ==
    cdbCalled =>
        /\ (Unusable(cdbStart) \/ Unusable(cdbEnd)) => cdbResult = Null
        /\ ~(Unusable(cdbStart) \/ Unusable(cdbEnd)) =>
            LET diff == Abs(NewDate(cdbEnd).t - NewDate(cdbStart).t)
            IN  /\ ~cdbResult.null
                /\ cdbResult.v \in Nat
                /\ cdbResult.v * HoursPerDay >= diff
                /\ (cdbResult.v - 1) * HoursPerDay < diff
                /\ cdbResult = calculateDaysBetween(cdbEnd, cdbStart)
        /\ (cdbStart = "2024-01-01" /\ cdbEnd = "2024-01-03") => cdbResult = Num(2)
        /\ (cdbStart = Undefined /\ cdbEnd = "2024-01-03") => cdbResult = Null

\* a pair less than a whole number of days apart has been measured
C7_Witness ==
    /\ cdbCalled
    /\ cdbStart = "2024-01-01"
    /\ cdbEnd = "2024-01-02T06:00"
    /\ cdbResult = Num(2)

---------------------------------------------------------------------------
(* parseDateFromExcel and excelSerialDateToJSDate *)

\* the characters of a string
Chars(str) == [i \in 1..Len(str) |-> SubSeq(str, i, i)]

DigitValue ==
    ( "0" :> 0 @@ "1" :> 1 @@ "2" :> 2 @@ "3" :> 3 @@ "4" :> 4 @@
      "5" :> 5 @@ "6" :> 6 @@ "7" :> 7 @@ "8" :> 8 @@ "9" :> 9 )

IsDigit(c) == c \in DOMAIN DigitValue

\* n in decimal, padded with zeros to width w (String.prototype.padStart)
Pad(n, w) ==
    LET text == ToString(n)
    IN  IF Len(text) >= w THEN text ELSE SubSeq("000000", 1, w - Len(text)) \o text

\* a number that may be NaN
NaNNumber == [nan |-> TRUE, v |-> 0]
IntNumber(n) == [nan |-> FALSE, v |-> n]

\* parseInt(str, 10): leading white space, a sign, the longest run of
\* decimal digits; NaN if there is no digit
ParseInt(str) ==
    LET c == Chars(str)
        lead == Max({ k \in 0..Len(c) : \A i \in 1..k : c[i] = " " })
        signed == lead + 1 <= Len(c) /\ c[lead + 1] \in {"+", "-"}
        first == IF signed THEN lead + 2 ELSE lead + 1
        count == Max({ k \in 0..(Len(c) - first + 1) :
                        \A i \in first..(first + k - 1) : IsDigit(c[i]) })
        val[k \in 0..count] ==
            IF k = 0 THEN 0 ELSE val[k - 1] * 10 + DigitValue[c[first + k - 1]]
    IN  IF count = 0 THEN NaNNumber
        ELSE IntNumber(IF signed /\ c[lead + 1] = "-" THEN -val[count] ELSE val[count])

\* str.split(/[/.-]/)
Split(str) ==
    LET c == Chars(str)
        parts[i \in 0..Len(c)] ==
            IF i = 0 THEN <<"">>
            ELSE IF c[i] \in {"/", ".", "-"} THEN Append(parts[i - 1], "")
            ELSE [parts[i - 1] EXCEPT ![Len(parts[i - 1])] = @ \o c[i]]
    IN  parts[Len(c)]

\* a time value is at most 8.64e15 ms, 100,000,000 days, from the epoch
MaxDateDays == 100000000

\* new Date(ms) for ms a whole number of days
DateOfDays(days) ==
    IF Abs(days) > MaxDateDays THEN NaN
    ELSE [valid |-> TRUE, t |-> days * HoursPerDay]

\* Date.prototype.getDate: the day of the month in local time
GetDate(date) == LocalCivil(date).d

\* new Date(year, monthIndex, day): local midnight; a year 0..99 is 1900 +
\* year, a month or a day out of range carries over
MakeLocalDate(year, monthIndex, day) ==
    LET yr == IF year >= 0 /\ year <= 99 THEN 1900 + year ELSE year
        days == DaysFromCivil(yr + FloorDiv(monthIndex, 12), (monthIndex % 12) + 1, 1)
                    + day - 1
    IN  IF Abs(days) > MaxDateDays THEN NaN
        ELSE [valid |-> TRUE, t |-> days * HoursPerDay - tz]

\* the year of toISOString: four digits, or a sign and six
IsoYear(y) ==
    IF y >= 0 /\ y <= 9999 THEN Pad(y, 4)
    ELSE (IF y < 0 THEN "-" ELSE "+") \o Pad(Abs(y), 6)

\* date.toISOString().split('T')[0]: the date in UTC; toISOString throws a
\* RangeError on an invalid date
ToISODate(date) ==
    IF ~date.valid THEN Thrown
    ELSE LET f == CivilFromDays(FloorDiv(date.t, HoursPerDay))
         IN  Returned(IsoYear(f.y) \o "-" \o Pad(f.m, 2) \o "-" \o Pad(f.d, 2))

\* the serial is a whole number (Math.floor leaves it as it is); null for
\* what is not a number
excelSerialDateToJSDate(serial) ==
    IF serial.t # "number" THEN [null |-> TRUE, date |-> NaN]
    ELSE LET utc_days == serial.n - 25569
             date_info == DateOfDays(utc_days)
         IN  IF ~date_info.valid
             THEN [null |-> FALSE, date |-> NaN]
             ELSE [null |-> FALSE,
                   date |-> MakeLocalDate(GetFullYear(date_info), GetMonth(date_info),
                                          GetDate(date_info))]

\* new Date(value) for the strings that reach the last lines of
\* parseDateFromExcel: four digits are a year in UTC, the other texts are
\* read as NewDate reads them
DateParse(str) ==
    IF Len(str) = 4 /\ \A i \in 1..4 : IsDigit(Chars(str)[i])
    THEN DateOfDays(DaysFromCivil(ParseInt(str).v, 1, 1))
    ELSE NewDate(str)

parseDateFromExcel(value) ==
    IF value.t \in {"null", "undefined"} \/ value = CellString("") THEN Returned("")
    ELSE IF value.t \in {"number", "nan"}
    THEN LET date == excelSerialDateToJSDate(value)
         IN  IF date.null THEN Returned("") ELSE ToISODate(date.date)
    ELSE LET parts == Split(value.s)
             day   == ParseInt(parts[1])
             month == ParseInt(parts[2])
             year  == ParseInt(parts[3])
         IN  IF Len(parts) = 3 /\ ~day.nan /\ ~month.nan /\ ~year.nan
             THEN LET fullYear == IF year.v < 100
                                  THEN (IF year.v > 50 THEN 1900 + year.v
                                        ELSE 2000 + year.v)
                                  ELSE year.v
                  IN  ToISODate(MakeLocalDate(fullYear, month.v - 1, day.v))
             ELSE LET parsedDate == DateParse(value.s)
                  IN  IF ~IsNaNTime(parsedDate) THEN ToISODate(parsedDate)
                      ELSE Returned("")

\* the cells handed to parseDateFromExcel
DateCells ==
    { CellUndefined, CellNull, CellNaN, CellString("") } \cup
    { CellNumber(n) : n \in {0, 1, 59, 25568, 25569, 25570, 45000, 45292,
                             1000000000, -1000000000} } \cup
    { CellString(str) : str \in {"15/01/2024", "1.2.24", "1-2-51", "1/2/50",
                                 "45/13/2024", "0/0/2024", " 5/ 6/2024",
                                 "1/1/12345", "1/1/300000", "2024-01-15",
                                 "2024-01-01T18:00", "2024", "TBD"} }

InitParse ==
    /\ tz \in TimeZones
    /\ pdfValue \in DateCells
    /\ pdfCalled = FALSE
    /\ pdfResult = Returned("")
    /\ DaysIdle
    /\ TermIdle
    /\ AppIdle
    /\ IoIdle
    /\ PagesIdle

CallParseDateFromExcel ==
    /\ ~pdfCalled
    /\ pdfCalled' = TRUE
    /\ pdfResult' = parseDateFromExcel(pdfValue)
    /\ UNCHANGED <<tz, pdfValue, daysVars, termVars, appVars, ioVars, pageVars>>

\* the mapper goes on to the next date cell of the row
NextCell ==
    /\ pdfCalled
    /\ pdfValue' \in DateCells
    /\ pdfCalled' = FALSE
    /\ pdfResult' = Returned("")
    /\ UNCHANGED <<tz, daysVars, termVars, appVars, ioVars, pageVars>>

NextParse == CallParseDateFromExcel \/ NextCell

SpecParse == InitParse /\ [][NextParse]_vars

\* str is YYYY-MM-DD and names a day of the calendar
IsCalendarDate(str) ==
    LET c == Chars(str)
        y == ParseInt(SubSeq(str, 1, 4)).v
        m == ParseInt(SubSeq(str, 6, 7)).v
        d == ParseInt(SubSeq(str, 9, 10)).v
    IN  /\ Len(str) = 10
        /\ \A i \in {1, 2, 3, 4, 6, 7, 9, 10} : IsDigit(c[i])
        /\ c[5] = "-" /\ c[8] = "-"
        /\ m \in 1..12
        /\ d >= 1
        /\ CivilFromDays(DaysFromCivil(y, m, d)) = [y |-> y, m |-> m, d |-> d]

\* C11: for a whole-number serial n parseDateFromExcel returns, as
\* YYYY-MM-DD, the calendar date n - 25569 days from 1970-01-01 (1970-01-01
\* for 25569, 1899-12-31 for 1), whatever the machine's time zone.  Stated
\* for the serials whose date a Date can hold.
C11_SerialDate ==
    (pdfCalled /\ pdfValue.t = "number" /\ Abs(pdfValue.n - 25569) <= MaxDateDays) =>
        /\ pdfResult.threw = FALSE
        /\ pdfResult.text = ToISODate(DateOfDays(pdfValue.n - 25569)).text
        /\ pdfValue.n = 25569 => pdfResult.text = "1970-01-01"
        /\ pdfValue.n = 1 => pdfResult.text = "1899-12-31"

\* C12: for every cell value parseDateFromExcel returns a valid YYYY-MM-DD
\* date string or the empty string; it returns no invalid date and raises
\* no error.
C12_DateOrEmpty ==
    pdfCalled =>
        /\ pdfResult.threw = FALSE
        /\ pdfResult.text = "" \/ IsCalendarDate(pdfResult.text)

---------------------------------------------------------------------------
(* UploadModal.handleUpload: from the sheet to shipmentsToUpload *)

\* the string of a sequence of characters
Text(c) ==
    The({ LET f[i \in 0..Len(cs)] == IF i = 0 THEN "" ELSE f[i - 1] \o cs[i]
          IN  f[Len(cs)] : cs \in {c} })

\* header.toLowerCase().replace(/\s+/g, '')
HeaderKey(header) ==
    Text(SelectSeq(ToLowerCase(Chars(header)), LAMBDA ch : ch # " "))

\* the tests of headers.forEach in their order: the field assigned, the
\* texts of which the key includes one, the texts it must not include, and
\* what is made of the cell
FieldRules ==
    << [field |-> "blAwb", any |-> {"bl"}, none |-> {}, conv |-> "raw"],
       [field |-> "typeOfCargo", any |-> {"description", "cargo"}, none |-> {},
        conv |-> "raw"],
       [field |-> "costCenter", any |-> {"costcenter"}, none |-> {}, conv |-> "raw"],
       [field |-> "status", any |-> {"status"}, none |-> {}, conv |-> "raw"],
       [field |-> "actualEta", any |-> {"eta"}, none |-> {}, conv |-> "date"],
       [field |-> "actualEtd", any |-> {"etd"}, none |-> {}, conv |-> "date"],
       [field |-> "incoterm", any |-> {"incoterm"}, none |-> {}, conv |-> "raw"],
       [field |-> "poSap", any |-> {"posap"}, none |-> {}, conv |-> "raw"],
       [field |-> "approvedDraftDi", any |-> {"approveddraftdi"}, none |-> {},
        conv |-> "raw"],
       [field |-> "bondedWarehouse", any |-> {"bondedwarehouse"}, none |-> {},
        conv |-> "raw"],
       [field |-> "fcl", any |-> {"fcl"}, none |-> {}, conv |-> "number"],
       [field |-> "invoiceValue", any |-> {"invoicevalue"}, none |-> {},
        conv |-> "number"],
       [field |-> "parametrization", any |-> {"parametrization"}, none |-> {},
        conv |-> "raw"],
       [field |-> "cargoPresenceDate", any |-> {"cargopresence"}, none |-> {},
        conv |-> "date"],
       [field |-> "diRegistrationDate", any |-> {"diregistration"}, none |-> {},
        conv |-> "date"],
       [field |-> "greenChannelOrDeliveryAuthorizedDate",
        any |-> {"greenchannel", "deliveryauthorized"}, none |-> {}, conv |-> "date"],
       [field |-> "firstTruckDelivery", any |-> {"firsttruck"}, none |-> {},
        conv |-> "date"],
       [field |-> "lastTruckDelivery", any |-> {"lasttruck"}, none |-> {},
        conv |-> "date"],
       [field |-> "nfIssueDate", any |-> {"nfissue"}, none |-> {}, conv |-> "date"],
       [field |-> "di", any |-> {"di"}, none |-> {"registration", "draft", "cif"},
        conv |-> "raw"],
       [field |-> "uniqueDi", any |-> {"uniquedi"}, none |-> {}, conv |-> "raw"] >>

RuleMatches(rule, key) ==
    /\ \E part \in rule.any : Includes(key, part)
    /\ \A part \in rule.none : ~Includes(key, part)

\* what the mapper makes of the result of parseDateFromExcel
DateCell(r) == [threw |-> r.threw, v |-> CellString(r.text)]

\* a blank cell left blank by every conversion
Converted_keepsBlank(conv, value) ==
    IF value = CellUndefined THEN [threw |-> FALSE, v |-> value]
    ELSE IF conv = "date" THEN DateCell(parseDateFromExcel(value))
    ELSE IF conv = "number"
    THEN [threw |-> FALSE, v |-> IF value.t = "number" THEN value ELSE CellNumber(0)]
    ELSE [threw |-> FALSE, v |-> value]

\* the value a rule assigns for the cell: the cell itself,
\* parseDateFromExcel(value), or typeof value === 'number' ? value : 0;
\* threw when parseDateFromExcel throws
Converted(conv, value) ==
    IF conv = "date" THEN DateCell(parseDateFromExcel(value))
    ELSE IF conv = "number"
    THEN [threw |-> FALSE, v |-> IF value.t = "number" THEN value ELSE CellNumber(0)]
    ELSE [threw |-> FALSE, v |-> value]

Conversions == {"raw", "date", "number"}

\* row[i]: undefined beyond the end of the row
CellAt(row, i) == IF i \in DOMAIN row THEN row[i] ELSE CellUndefined

\* shipment.field, undefined for a field never assigned
Field(shipment, field) ==
    IF field \in DOMAIN shipment THEN shipment[field] ELSE CellUndefined

\* the tests that fire for a header key
MatchedRules(key) == { k \in DOMAIN FieldRules : RuleMatches(FieldRules[k], key) }

\* the earlier of two matching columns kept: a field once assigned stays
AssignMatched_firstWins(shipment, matched, made) ==
    IF \E k \in matched : made[FieldRules[k].conv].threw
    THEN [threw |-> TRUE, shipment |-> shipment]
    ELSE [threw |-> FALSE,
          shipment |->
            [f \in DOMAIN shipment \cup { FieldRules[k].field : k \in matched } |->
                IF f \in DOMAIN shipment THEN shipment[f]
                ELSE made[FieldRules[CHOOSE k \in matched : FieldRules[k].field = f].conv].v]]

\* the assignments of the tests that fire, made[conv] being what conv makes
\* of the cell.  Each field has one test, so the tests taken in their order
\* assign every field whose test fires once; a conversion that throws ends
\* the row
AssignMatched(shipment, matched, made) ==
    IF \E k \in matched : made[FieldRules[k].conv].threw
    THEN [threw |-> TRUE, shipment |-> shipment]
    ELSE [threw |-> FALSE,
          shipment |->
            [f \in DOMAIN shipment \cup { FieldRules[k].field : k \in matched } |->
                IF \E k \in matched : FieldRules[k].field = f
                THEN made[FieldRules[CHOOSE k \in matched : FieldRules[k].field = f].conv].v
                ELSE shipment[f]]]

\* the body of headers.forEach for one column
ApplyHeader(shipment, header, value) ==
    The({ AssignMatched(shipment, MatchedRules(key),
                        [conv \in Conversions |-> Converted(conv, value)]) :
            key \in {HeaderKey(header)} })

\* headers.forEach for one column and the record so far: a blank header (a
\* hole of the array) is skipped, a header that is not a string throws at
\* toLowerCase
MapCell(prev, header, value) ==
    IF prev.threw \/ header.t = "undefined" THEN prev
    ELSE IF header.t # "string" THEN [prev EXCEPT !.threw = TRUE]
    ELSE ApplyHeader(prev.shipment, header.s, value)

\* the record of a row after its first i columns
RECURSIVE MapColumns(_, _, _, _)
MapColumns(headers, row, index, i) ==
    IF i = 0
    THEN [threw |-> FALSE,
          shipment |-> [f \in {"id"} |-> CellString("row-" \o ToString(index))]]
    ELSE The({ MapCell(prev, headers[i], CellAt(row, i)) :
                prev \in {MapColumns(headers, row, index, i - 1)} })

\* one row mapped
MapRow(headers, row, index) == MapColumns(headers, row, index, Len(headers))

\* a JavaScript value taken as a condition
Truthy(v) == (v.t = "string" /\ v.s # "") \/ (v.t = "number" /\ v.n # 0)

\* the gate lost: every row is handed on
KeepRow_all(shipment) == TRUE

\* .filter(s => s.blAwb)
KeepRow(shipment) == Truthy(Field(shipment, "blAwb"))

\* .filter(...) on the mapped rows: threw when a row throws
KeptRows(mapped) ==
    IF \E r \in DOMAIN mapped : mapped[r].threw
    THEN [threw |-> TRUE, shipments |-> <<>>]
    ELSE [threw |-> FALSE,
          shipments |-> SelectSeq([r \in DOMAIN mapped |-> mapped[r].shipment], KeepRow)]

\* rows.map(...).filter(...)
shipmentsToUpload(sheet) ==
    The({ KeptRows(mapped) :
            mapped \in {[r \in DOMAIN sheet.rows |->
                            MapRow(sheet.headers, sheet.rows[r], r - 1)]} })

---------------------------------------------------------------------------
(* Shipments *)

\* an absent number field (fcl?: number)
NoNumber == -1

\* a Shipment with every optional field absent
NoShipment ==
    [ id |-> "", typeOfCargo |-> Undefined, shipmentType |-> Undefined,
      fcl |-> NoNumber, bondedWarehouse |-> UndefinedName,
      technicianResponsibleBrazil |-> UndefinedName, uniqueDi |-> Undefined,
      di |-> Undefined, parametrization |-> Undefined, status |-> Undefined,
      actualEta |-> Undefined, cargoPresenceDate |-> Undefined,
      diRegistrationDate |-> Undefined,
      greenChannelOrDeliveryAuthorizedDate |-> Undefined,
      nfIssueDate |-> Undefined, firstTruckDelivery |-> Undefined ]

\* s.fcl || dflt
FclOr(s, dflt) == IF s.fcl = NoNumber \/ s.fcl = 0 THEN dflt ELSE s.fcl

\* new Date().getFullYear()
CurrentYear == 2024

---------------------------------------------------------------------------
(* KPIsPage and its filter sidebar *)

\* the years of the shipments' dates under dateField, as KPIsPage.latestYear
\* and KPIFilterSidebar.years collect them
YearsOf(ships, dateField) ==
    { GetFullYear(NewDate(ships[i][dateField])) :
        i \in { j \in DOMAIN ships :
                    /\ ~Falsy(ships[j][dateField])
                    /\ ~IsNaNTime(NewDate(ships[j][dateField])) } }

latestYear(ships) ==
    LET years == YearsOf(ships, "actualEta")
    IN  IF years # {} THEN Max(years) ELSE CurrentYear

\* KPIFilterSidebar: dateSourceField of the active dashboard
DateSourceField(tab) == IF tab = "Performance" THEN "diRegistrationDate" ELSE "actualEta"

\* KPIFilterSidebar.cargoTypes
cargoTypes(ships) ==
    { ships[i].typeOfCargo : i \in { j \in DOMAIN ships : ~Falsy(ships[j].typeOfCargo) } }

\* the test of the three dashboards' filteredShipments, on the date read
\* from dateField
KpiMatch_undated(s, filters, dateField) ==
    LET cargoMatch == Len(filters.cargo) = 0 \/ s.typeOfCargo \in Range(filters.cargo)
        shipmentDate == NewDate(s[dateField])
    IN  IF Falsy(s[dateField]) \/ IsNaNTime(shipmentDate)
        THEN cargoMatch /\ filters.year = All /\ filters.month = All
        ELSE LET yearMatch  == filters.year = All \/ GetFullYear(shipmentDate) = filters.year
                 monthMatch == filters.month = All \/ GetMonth(shipmentDate) = filters.month
             IN  cargoMatch /\ yearMatch /\ monthMatch

KpiMatch(s, filters, dateField) ==
    LET cargoMatch == Len(filters.cargo) = 0 \/ s.typeOfCargo \in Range(filters.cargo)
    IN  IF Falsy(s[dateField]) THEN FALSE
        ELSE LET shipmentDate == NewDate(s[dateField])
             IN  IF IsNaNTime(shipmentDate) THEN FALSE
                 ELSE LET yearMatch  == \/ filters.year = All
                                        \/ GetFullYear(shipmentDate) = filters.year
                          monthMatch == \/ filters.month = All
                                        \/ GetMonth(shipmentDate) = filters.month
                      IN  cargoMatch /\ yearMatch /\ monthMatch

\* CargosInTransitDashboard.filteredShipments
CIT_filteredShipments(ships, filters) ==
    SelectSeq(ships, LAMBDA s : KpiMatch(s, filters, "actualEta"))

\* PerformanceDashboard.filteredShipments
Perf_filteredShipments(ships, filters) ==
    SelectSeq(ships, LAMBDA s : KpiMatch(s, filters, "diRegistrationDate"))

\* OperationStatusDashboard.filteredShipments
Op_filteredShipments(ships, filters) ==
    SelectSeq(ships, LAMBDA s : KpiMatch(s, filters, "actualEta"))

---------------------------------------------------------------------------
(* OperationStatusDashboard: the aggregates *)

\* the groups of statusByBLsData and of statusByContainersData, in the
\* order they are declared
StatusGroups == <<"IN TRANSIT", "AT THE PORT", "DI REGISTERED", "CARGO CLEARED">>

\* the groups of the statusByContainersData of src/unnamed/part_000
StatusGroupsDelivered == StatusGroups \o <<"CARGO DELIVERED">>

CargoReady == "CARGO READY"

\* the alias branch lost: CARGO READY falls through like any other status
statusByBLsData_noAlias(fs) ==
    LET groups[i \in 0..Len(fs)] ==
            IF i = 0 THEN [l \in Range(StatusGroups) |-> <<>>]
            ELSE LET s == fs[i]
                     g == groups[i - 1]
                 IN  IF Falsy(s.status) THEN g
                     ELSE IF s.status \in DOMAIN g
                          THEN [g EXCEPT ![s.status] = Append(@, s)]
                     ELSE g
        final == groups[Len(fs)]
    IN  [k \in 1..Len(StatusGroups) |->
            [label |-> StatusGroups[k], value |-> Len(final[StatusGroups[k]]),
             shipments |-> final[StatusGroups[k]]]]

statusByBLsData(fs) ==
    LET groups[i \in 0..Len(fs)] ==
            IF i = 0 THEN [l \in Range(StatusGroups) |-> <<>>]
            ELSE LET s == fs[i]
                     g == groups[i - 1]
                 IN  IF Falsy(s.status) THEN g
                     ELSE IF s.status \in DOMAIN g
                          THEN [g EXCEPT ![s.status] = Append(@, s)]
                     ELSE IF s.status = CargoReady
                          THEN [g EXCEPT !["AT THE PORT"] = Append(@, s)]
                     ELSE g
        final == groups[Len(fs)]
    IN  [k \in 1..Len(StatusGroups) |->
            [label |-> StatusGroups[k], value |-> Len(final[StatusGroups[k]]),
             shipments |-> final[StatusGroups[k]]]]

IsFCL(s) == s.shipmentType = "FCL" \/ s.shipmentType = "FCL/LCL"

\* the mode test lost: every record counts its containers
ContainerCount_anyMode(s) == FclOr(s, 1)

\* (s.shipmentType === 'FCL' || s.shipmentType === 'FCL/LCL') ? (s.fcl || 1) : 0
ContainerCount(s) == IF IsFCL(s) THEN FclOr(s, 1) ELSE 0

\* statusByContainersData over the groups named by labels
StatusByContainers(fs, labels) ==
    LET groups[i \in 0..Len(fs)] ==
            IF i = 0 THEN [l \in Range(labels) |-> [shipments |-> <<>>, count |-> 0]]
            ELSE LET s == fs[i]
                     g == groups[i - 1]
                     containerCount == ContainerCount(s)
                 IN  IF ~Falsy(s.status) /\ s.status \in DOMAIN g
                     THEN [g EXCEPT ![s.status] =
                            [shipments |-> Append(@.shipments, s),
                             count |-> @.count + containerCount]]
                     ELSE IF s.status = CargoReady
                     THEN [g EXCEPT !["AT THE PORT"] =
                            [shipments |-> Append(@.shipments, s),
                             count |-> @.count + containerCount]]
                     ELSE g
        final == groups[Len(fs)]
    IN  [k \in 1..Len(labels) |->
            [label |-> labels[k], value |-> final[labels[k]].count,
             shipments |-> final[labels[k]].shipments]]

statusByContainersData(fs) == StatusByContainers(fs, StatusGroups)

\* the statusByContainersData of src/unnamed/part_000
statusByContainersData_part000(fs) == StatusByContainers(fs, StatusGroupsDelivered)

\* the index of the entry of list labelled label, 0 if there is none
IndexOfLabel(list, label) ==
    IF \E k \in DOMAIN list : list[k].label = label
    THEN CHOOSE k \in DOMAIN list : list[k].label = label
    ELSE 0

\* containerVolumeByWarehouseData: one entry per warehouse, in the order
\* the warehouses are first met
containerVolumeByWarehouseData(fs) ==
    LET warehouses[i \in 0..Len(fs)] ==
            IF i = 0 THEN <<>>
            ELSE LET s == fs[i]
                     w == warehouses[i - 1]
                     warehouse == normalizeTerminalName(s.bondedWarehouse)
                     containerCount == ContainerCount(s)
                     k == IndexOfLabel(w, warehouse)
                 IN  IF warehouse = NA THEN w
                     ELSE IF k = 0
                          THEN Append(w, [label |-> warehouse, value |-> containerCount,
                                          shipments |-> <<s>>])
                     ELSE [w EXCEPT ![k] =
                            [label |-> warehouse, value |-> @.value + containerCount,
                             shipments |-> Append(@.shipments, s)]]
    IN  warehouses[Len(fs)]

---------------------------------------------------------------------------
(* CargosInTransitDashboard: Cargo Volume per terminal and month *)

monthLabels == <<"Julho", "Agosto", "Setembro", "Outubro", "Novembro", "Dezembro">>

\* the first month of the chart (monthIndex >= 6, monthLabels[monthIndex - 6])
FirstSliceMonth == 6

\* the UTF-16 code unit of a character, which Array.prototype.sort compares
CodeUnit ==
    ( " " :> 32 @@ "-" :> 45 @@ "/" :> 47 @@ "0" :> 48 @@ "1" :> 49 @@ "2" :> 50 @@
      "3" :> 51 @@ "4" :> 52 @@ "5" :> 53 @@ "A" :> 65 @@ "B" :> 66 @@ "C" :> 67 @@
      "E" :> 69 @@ "I" :> 73 @@
      "L" :> 76 @@ "M" :> 77 @@ "N" :> 78 @@ "O" :> 79 @@ "P" :> 80 @@ "R" :> 82 @@
      "S" :> 83 @@ "T" :> 84 @@ "X" :> 88 @@ "a" :> 97 @@ "c" :> 99 @@ "e" :> 101 @@
      "i" :> 105 @@ "l" :> 108 @@ "m" :> 109 @@ "n" :> 110 @@ "o" :> 111 @@
      "p" :> 112 @@ "r" :> 114 @@ "s" :> 115 @@ "t" :> 116 @@ "x" :> 120 @@
      "Í" :> 205 @@ "Ó" :> 211 @@ "í" :> 237 @@ "ó" :> 243 )

\* a sorts before b
NameLess(a, b) ==
    \E k \in 1..(Len(a) + 1) :
        /\ \A j \in 1..(k - 1) : j <= Len(b) /\ a[j] = b[j]
        /\ \/ k = Len(a) + 1 /\ Len(b) >= k
           \/ k <= Len(a) /\ k <= Len(b) /\ CodeUnit[a[k]] < CodeUnit[b[k]]

\* Array.from(terminals).sort()
RECURSIVE SortNames(_)
SortNames(names) ==
    IF names = {} THEN <<>>
    ELSE LET first == CHOOSE a \in names : \A b \in names \ {a} : NameLess(a, b)
         IN  <<first>> \o SortNames(names \ {first})

\* s.fcl || 0 for an FCL or FCL/LCL record, 0 for every other mode
ContainerVolume(s) == IF IsFCL(s) THEN FclOr(s, 0) ELSE 0

cargoVolumeDataStack(fs) ==
    LET noEntry == [volume |-> 0, shipments |-> <<>>]
        acc[i \in 0..Len(fs)] ==
            IF i = 0
            THEN [months |-> [m \in 1..Len(monthLabels) |-> <<>>], terminals |-> {}]
            ELSE LET s == fs[i]
                     a == acc[i - 1]
                     date == NewDate(s.actualEta)
                     monthIndex == GetMonth(date)
                     m == monthIndex - FirstSliceMonth + 1
                     terminal == normalizeTerminalName(s.bondedWarehouse)
                     containerVolume == ContainerVolume(s)
                     k == IndexOfLabel(a.months[m], terminal)
                 IN  IF Falsy(s.actualEta) \/ IsNaNTime(date) THEN a
                     ELSE IF monthIndex < FirstSliceMonth THEN a
                     ELSE IF containerVolume <= 0
                          THEN [a EXCEPT !.terminals = @ \cup {terminal}]
                     ELSE IF k = 0
                          THEN [months |-> [a.months EXCEPT ![m] =
                                    Append(@, [label |-> terminal,
                                               volume |-> containerVolume,
                                               shipments |-> <<s>>])],
                                terminals |-> a.terminals \cup {terminal}]
                     ELSE [months |-> [a.months EXCEPT ![m][k] =
                                    [label |-> terminal,
                                     volume |-> @.volume + containerVolume,
                                     shipments |-> Append(@.shipments, s)]],
                           terminals |-> a.terminals \cup {terminal}]
        final == acc[Len(fs)]
        sortedTerminals == SortNames(final.terminals)
        entry(m, terminal) ==
            LET k == IndexOfLabel(final.months[m], terminal)
            IN  IF k = 0 THEN noEntry ELSE final.months[m][k]
    IN  [labels |-> monthLabels,
         datasets |-> [t \in 1..Len(sortedTerminals) |->
            [label |-> sortedTerminals[t],
             data |-> [m \in 1..Len(monthLabels) |-> entry(m, sortedTerminals[t]).volume],
             shipments |-> [m \in 1..Len(monthLabels) |->
                                entry(m, sortedTerminals[t]).shipments]]]]

---------------------------------------------------------------------------
(* App and KPIsPage: the handlers *)

MaxShipments == 2

KpiTabs == {"Cargos in Transit", "Performance", "Operation Status"}

\* the months of the sidebar the model clicks
MonthChoices == {All, 0, 6, 11}

\* fetchShipments / handleUploadShipments: setShipments with the collection
\* as fetched, which holds one document more (drawn from docs) than the
\* sequence held; KPIsPage, when mounted, follows latestYear
ShipmentsLoaded(docs, max) ==
    /\ Len(shipments) < max
    /\ \E doc \in docs :
        shipments' = Append(shipments, [doc EXCEPT !.id = ToString(Len(shipments) + 1)])
    /\ kpiFilters' =
        IF activePage = "KPIs" /\ latestYear(shipments') # latestYear(shipments)
        THEN [kpiFilters EXCEPT !.year = latestYear(shipments')]
        ELSE kpiFilters
    /\ UNCHANGED <<tz, activePage, kpiTab, brokFilters, daysVars, termVars, parseVars, ioVars,
                   pageVars>>

\* handleNavigate: the page left is unmounted, the page entered is mounted
\* with its initial state
handleNavigate(page) ==
    /\ page # activePage
    /\ activePage' = page
    /\ kpiTab' = IF page = "KPIs" THEN "Cargos in Transit" ELSE ""
    /\ kpiFilters' =
        IF page = "KPIs"
        THEN [cargo |-> <<>>, year |-> latestYear(shipments), month |-> All]
        ELSE NoKpiFilters
    /\ brokFilters' =
        IF page = "Brokerage KPIs"
        THEN [analyst |-> AllName, month |-> "All", year |-> ToString(CurrentYear),
              cargo |-> "All"]
        ELSE NoBrokFilters
    /\ pageState' = NoPageState
    /\ statusFilter' = "All"
    /\ searchTerm' = ""
    /\ UNCHANGED <<tz, shipments, daysVars, termVars, parseVars, ioVars, zoomVars>>

setActiveTab ==
    /\ activePage = "KPIs"
    /\ \E tab \in KpiTabs : kpiTab' = tab
    /\ UNCHANGED <<tz, shipments, activePage, kpiFilters, brokFilters, daysVars, termVars, parseVars, ioVars,
                   pageVars>>

handleYearClick ==
    /\ activePage = "KPIs"
    /\ \E year \in {All} \cup YearsOf(shipments, DateSourceField(kpiTab)) :
        kpiFilters' = [kpiFilters EXCEPT !.year = year]
    /\ UNCHANGED <<tz, shipments, activePage, kpiTab, brokFilters, daysVars, termVars, parseVars, ioVars,
                   pageVars>>

handleMonthClick ==
    /\ activePage = "KPIs"
    /\ \E month \in MonthChoices :
        kpiFilters' = [kpiFilters EXCEPT !.month = month]
    /\ UNCHANGED <<tz, shipments, activePage, kpiTab, brokFilters, daysVars, termVars, parseVars, ioVars,
                   pageVars>>

handleCargoClick ==
    /\ activePage = "KPIs"
    /\ \E cargoType \in cargoTypes(shipments) :
        kpiFilters' = [kpiFilters EXCEPT !.cargo =
            IF cargoType \in Range(@)
            THEN SelectSeq(@, LAMBDA c : c # cargoType)
            ELSE Append(@, cargoType)]
    /\ UNCHANGED <<tz, shipments, activePage, kpiTab, brokFilters, daysVars, termVars, parseVars, ioVars,
                   pageVars>>

handleClearCargo ==
    /\ activePage = "KPIs"
    /\ kpiFilters' = [kpiFilters EXCEPT !.cargo = <<>>]
    /\ UNCHANGED <<tz, shipments, activePage, kpiTab, brokFilters, daysVars, termVars, parseVars, ioVars,
                   pageVars>>

KpiClicks ==
    \/ setActiveTab
    \/ handleYearClick
    \/ handleMonthClick
    \/ handleCargoClick
    \/ handleClearCargo

\* the dashboards' inputs in the current state
CIT_filtered == CIT_filteredShipments(shipments, kpiFilters)
Perf_filtered == Perf_filteredShipments(shipments, kpiFilters)
Op_filtered == Op_filteredShipments(shipments, kpiFilters)

---------------------------------------------------------------------------
(* Operation Status and Cargo Volume over shipments that differ in status, *)
(* mode, container count and warehouse                                     *)

Intermaritima_accent ==
    <<"I", "n", "t", "e", "r", "m", "a", "r", "í", "t", "i", "m", "a">>

OpsDocs ==
    { [NoShipment EXCEPT !.status = "IN TRANSIT", !.shipmentType = "FCL", !.fcl = 2,
          !.bondedWarehouse = TECON, !.actualEta = "2024-07-20",
          !.typeOfCargo = "BATTERY"],
      [NoShipment EXCEPT !.status = CargoReady, !.shipmentType = "LCL", !.fcl = 2,
          !.bondedWarehouse = TxtTecon, !.actualEta = "2024-07-01"],
      [NoShipment EXCEPT !.status = "AT THE PORT", !.shipmentType = "FCL/LCL",
          !.bondedWarehouse = Intermaritima_accent, !.actualEta = "2024-01-15"],
      [NoShipment EXCEPT !.status = "CARGO DELIVERED", !.shipmentType = "AIR",
          !.fcl = 1, !.bondedWarehouse = <<"X">>, !.actualEta = "2024-07-20"],
      [NoShipment EXCEPT !.shipmentType = "FCL", !.fcl = 0, !.actualEta = "2024-07-01"],
      [NoShipment EXCEPT !.status = "DI REGISTERED", !.shipmentType = "LCL", !.fcl = 1,
          !.bondedWarehouse = TPC, !.actualEta = "not a date"],
      [NoShipment EXCEPT !.status = "CARGO CLEARED", !.shipmentType = "FCL", !.fcl = 1,
          !.bondedWarehouse = TPC, !.actualEta = "2023-12-31"] }

InitApp ==
    /\ tz \in {-3, 0}
    /\ AppIdle
    /\ DaysIdle
    /\ TermIdle
    /\ ParseIdle
    /\ PagesIdle
    /\ IoSignedIn

OpsLoaded == ShipmentsLoaded(OpsDocs, MaxShipments)

NavigateKpi == handleNavigate("KPIs") \/ handleNavigate("Dashboard")

NextOps == OpsLoaded \/ NavigateKpi \/ KpiClicks

SpecOps == InitApp /\ [][NextOps]_vars

RECURSIVE SumValues(_)
SumValues(list) ==
    IF list = <<>> THEN 0 ELSE Head(list).value + SumValues(Tail(list))

\* the value of the entry labelled label, 0 if there is none
ValueOf(list, label) ==
    LET k == IndexOfLabel(list, label)
    IN  IF k = 0 THEN 0 ELSE list[k].value

Ids(list) == {list[i].id : i \in DOMAIN list}

OnOperationStatus == activePage = "KPIs" /\ kpiTab = "Operation Status"
OnCargosInTransit == activePage = "KPIs" /\ kpiTab = "Cargos in Transit"
OnPerformance == activePage = "KPIs" /\ kpiTab = "Performance"

\* C1: in Operation Status 'by BLs' the bucket counts add up to the number
\* of filtered records whose status is one of the four groups or CARGO
\* READY (counted under AT THE PORT); a record with an absent or
\* unrecognized status is in no bucket and no record is in two buckets.
C1_StatusSum ==
    OnOperationStatus =>
        LET data == statusByBLsData(Op_filtered)
            counted == { i \in DOMAIN Op_filtered :
                            Op_filtered[i].status \in Range(StatusGroups) \cup {CargoReady} }
        IN  /\ SumValues(data) = Cardinality(counted)
            /\ \A k \in DOMAIN data : data[k].value = Len(data[k].shipments)
            /\ \A k, l \in DOMAIN data :
                k # l => Ids(data[k].shipments) \cap Ids(data[l].shipments) = {}
            /\ \A i \in DOMAIN Op_filtered :
                LET s == Op_filtered[i]
                    buckets == { k \in DOMAIN data : s.id \in Ids(data[k].shipments) }
                IN  /\ i \notin counted => buckets = {}
                    /\ s.status = CargoReady =>
                        buckets = { k \in DOMAIN data : data[k].label = "AT THE PORT" }
                    /\ s.status \in Range(StatusGroups) =>
                        buckets = { k \in DOMAIN data : data[k].label = s.status }

\* a CARGO READY record and a record of a status outside the groups are
\* filtered in, and only the first is counted
C1_Witness ==
    /\ OnOperationStatus
    /\ \E i, j \in DOMAIN Op_filtered :
        /\ Op_filtered[i].status = CargoReady
        /\ Op_filtered[j].status = "CARGO DELIVERED"
    /\ SumValues(statusByBLsData(Op_filtered)) = 1
    /\ ValueOf(statusByBLsData(Op_filtered), "AT THE PORT") = 1

\* the filtered records of mode FCL or FCL/LCL
OnlyFCL(fs) == SelectSeq(fs, IsFCL)

\* C2: a record whose mode is neither FCL nor FCL/LCL adds 0 to every
\* container count (status by containers, container volume by warehouse,
\* cargo volume per terminal and month), whatever its fcl field holds: each
\* count is what the FCL and FCL/LCL records alone add up to.
C2_NonFclAddsZero ==
    /\ OnOperationStatus =>
        /\ \A k \in DOMAIN StatusGroups :
            statusByContainersData(Op_filtered)[k].value
                = statusByContainersData(OnlyFCL(Op_filtered))[k].value
        /\ \A k \in DOMAIN StatusGroupsDelivered :
            statusByContainersData_part000(Op_filtered)[k].value
                = statusByContainersData_part000(OnlyFCL(Op_filtered))[k].value
        /\ \A e \in Range(containerVolumeByWarehouseData(Op_filtered)) :
            e.value = ValueOf(containerVolumeByWarehouseData(OnlyFCL(Op_filtered)), e.label)
    /\ OnCargosInTransit =>
        LET all == cargoVolumeDataStack(CIT_filtered).datasets
            fcl == cargoVolumeDataStack(OnlyFCL(CIT_filtered)).datasets
        IN  \A d \in Range(all) : \A m \in DOMAIN monthLabels :
                d.data[m] = IF IndexOfLabel(fcl, d.label) = 0 THEN 0
                            ELSE fcl[IndexOfLabel(fcl, d.label)].data[m]

\* an LCL record holding fcl = 2 is in the AT THE PORT bucket and in the
\* TECON warehouse, and both count no container
C2_Witness ==
    /\ OnOperationStatus
    /\ \E i \in DOMAIN Op_filtered :
        /\ Op_filtered[i].shipmentType = "LCL"
        /\ Op_filtered[i].fcl = 2
    /\ LET bucket == statusByContainersData(Op_filtered)[2]
       IN  bucket.label = "AT THE PORT" /\ bucket.value = 0 /\ Len(bucket.shipments) = 1
    /\ \E e \in Range(containerVolumeByWarehouseData(Op_filtered)) :
        e.label = TECON /\ e.value = 0 /\ Len(e.shipments) = 1

---------------------------------------------------------------------------
(* PerformanceDashboard: the aggregates *)

ChannelGroups == <<"Green", "Yellow", "Red">>

\* Map.prototype.has on a Map kept as the sequence of its entries
HasKey(map, key) == \E k \in DOMAIN map : map[k].key = key

\* every row kept: the has() test before set() lost, the Map an array
diParamData_perRow(fs) ==
    LET groups[i \in 0..Len(fs)] ==
            IF i = 0 THEN [l \in Range(ChannelGroups) |-> <<>>]
            ELSE LET s == fs[i]
                     g == groups[i - 1]
                 IN  IF /\ ~Falsy(s.di)
                        /\ ~Falsy(s.parametrization)
                        /\ s.parametrization \in DOMAIN g
                     THEN [g EXCEPT ![s.parametrization] =
                                Append(@, [key |-> s.di, value |-> s])]
                     ELSE g
        final == groups[Len(fs)]
    IN  [k \in 1..Len(ChannelGroups) |->
            [label |-> ChannelGroups[k],
             value |-> Len(final[ChannelGroups[k]]),
             shipments |-> [j \in DOMAIN final[ChannelGroups[k]] |->
                                final[ChannelGroups[k]][j].value]]]

diParamData(fs) ==
    LET groups[i \in 0..Len(fs)] ==
            IF i = 0 THEN [l \in Range(ChannelGroups) |-> <<>>]
            ELSE LET s == fs[i]
                     g == groups[i - 1]
                 IN  IF /\ ~Falsy(s.di)
                        /\ ~Falsy(s.parametrization)
                        /\ s.parametrization \in DOMAIN g
                        /\ ~HasKey(g[s.parametrization], s.di)
                     THEN [g EXCEPT ![s.parametrization] =
                                Append(@, [key |-> s.di, value |-> s])]
                     ELSE g
        final == groups[Len(fs)]
    IN  [k \in 1..Len(ChannelGroups) |->
            [label |-> ChannelGroups[k],
             value |-> Len(final[ChannelGroups[k]]),
             shipments |-> [j \in DOMAIN final[ChannelGroups[k]] |->
                                final[ChannelGroups[k]][j].value]]]

\* one month short: Array(11), month < 11
MonthsPerYear_eleven == 11

MonthsPerYear == 12

\* Array(12).fill(null).map(...): index m + 1 holds month m
MonthSlots == 1..MonthsPerYear

monthNames ==
    <<"Janeiro", "Fevereiro", "Março", "Abril", "Maio", "Junho", "Julho", "Agosto",
      "Setembro", "Outubro", "Novembro", "Dezembro">>

disPerMonth(fs) ==
    LET monthlyUniqueDIs[i \in 0..Len(fs)] ==
            IF i = 0 THEN [m \in MonthSlots |-> <<>>]
            ELSE LET shipment == fs[i]
                     u == monthlyUniqueDIs[i - 1]
                     date == NewDate(shipment.diRegistrationDate)
                     month == GetMonth(date)
                 IN  IF Falsy(shipment.di) \/ Falsy(shipment.diRegistrationDate) THEN u
                     ELSE IF IsNaNTime(date) THEN u
                     ELSE IF ~(month >= 0 /\ month < MonthsPerYear) THEN u
                     ELSE IF HasKey(u[month + 1], shipment.di) THEN u
                     ELSE [u EXCEPT ![month + 1] =
                            Append(@, [key |-> shipment.di, value |-> shipment])]
        final == monthlyUniqueDIs[Len(fs)]
    IN  [labels |-> monthNames,
         datasets |-> <<[label |-> "DIs",
                         data |-> [m \in MonthSlots |-> Len(final[m])],
                         shipments |-> [m \in MonthSlots |->
                            [j \in DOMAIN final[m] |-> final[m][j].value]]]>>]

RECURSIVE SumSeq(_)
SumSeq(arr) == IF arr = <<>> THEN 0 ELSE Head(arr) + SumSeq(Tail(arr))

\* the mean truncated instead of rounded
RoundAvg_truncated(arr) ==
    IF Len(arr) = 0 THEN 0 ELSE FloorDiv(SumSeq(arr), Len(arr))

\* Math.round(avg(arr)) for an array of non-negative whole numbers:
\* avg is 0 for the empty array, and Math.round rounds a half up
RoundAvg(arr) ==
    IF Len(arr) = 0 THEN 0
    ELSE FloorDiv(2 * SumSeq(arr) + Len(arr), 2 * Len(arr))

Metrics == {"clearance", "delivery", "operation", "nf"}

\* the two date fields each metric of lineChartData is measured between
MetricFrom ==
    [ clearance |-> "cargoPresenceDate",
      delivery  |-> "greenChannelOrDeliveryAuthorizedDate",
      operation |-> "actualEta",
      nf        |-> "greenChannelOrDeliveryAuthorizedDate" ]
MetricTo ==
    [ clearance |-> "greenChannelOrDeliveryAuthorizedDate",
      delivery  |-> "firstTruckDelivery",
      operation |-> "greenChannelOrDeliveryAuthorizedDate",
      nf        |-> "nfIssueDate" ]

\* a missing pair pushed as 0 days instead of left out
PushDays_zeroForNull(slot, days, s) ==
    [days |-> Append(slot.days, days.v), shipments |-> Append(slot.shipments, s)]

\* if (x !== null) { months[month].x.push(x); months[month].xShipments.push(s); }
PushDays(slot, days, s) ==
    IF days.null THEN slot
    ELSE [days |-> Append(slot.days, days.v), shipments |-> Append(slot.shipments, s)]

lineChartData(fs) ==
    LET shipmentsForPerf == SelectSeq(fs, LAMBDA s : s.uniqueDi # "Yes")
        months[i \in 0..Len(shipmentsForPerf)] ==
            IF i = 0
            THEN [m \in MonthSlots |->
                    [x \in Metrics |-> [days |-> <<>>, shipments |-> <<>>]]]
            ELSE LET s == shipmentsForPerf[i]
                     a == months[i - 1]
                     date == NewDate(s.diRegistrationDate)
                     month == GetMonth(date)
                 IN  IF Falsy(s.diRegistrationDate) THEN a
                     ELSE IF IsNaNTime(date) THEN a
                     ELSE IF ~(month >= 0 /\ month < MonthsPerYear) THEN a
                     ELSE [a EXCEPT ![month + 1] =
                            [x \in Metrics |->
                                PushDays(@[x],
                                         calculateDaysBetween(s[MetricFrom[x]], s[MetricTo[x]]),
                                         s)]]
        final == months[Len(shipmentsForPerf)]
    IN  [x \in Metrics \cup {"labels"} |->
            IF x = "labels" THEN monthNames
            ELSE [m \in MonthSlots |->
                    [value |-> RoundAvg(final[m][x].days),
                     shipments |-> final[m][x].shipments]]]

---------------------------------------------------------------------------
(* The Performance dashboard over shipments that differ in DI number,      *)
(* channel, registration date and milestone dates                          *)

PerfDocs ==
    { [NoShipment EXCEPT !.di = "DI-1", !.parametrization = "Green",
          !.diRegistrationDate = "2024-01-15", !.cargoPresenceDate = "2024-01-01",
          !.greenChannelOrDeliveryAuthorizedDate = "2024-01-03",
          !.actualEta = "2023-12-31", !.nfIssueDate = "not a date",
          !.typeOfCargo = "BATTERY", !.shipmentType = "FCL", !.fcl = 2,
          !.bondedWarehouse = TECON],
      [NoShipment EXCEPT !.di = "DI-1", !.parametrization = "Red",
          !.diRegistrationDate = "2024-02-10", !.cargoPresenceDate = "2024-01-01T18:00",
          !.greenChannelOrDeliveryAuthorizedDate = "2024-01-03",
          !.firstTruckDelivery = "2024-01-15", !.actualEta = "2024-07-20",
          !.typeOfCargo = "CAR", !.shipmentType = "LCL", !.fcl = 1,
          !.bondedWarehouse = TPC],
      [NoShipment EXCEPT !.di = "DI-2", !.parametrization = "Green",
          !.uniqueDi = "Yes", !.diRegistrationDate = "2024-01-15",
          !.cargoPresenceDate = "2024-01-01",
          !.greenChannelOrDeliveryAuthorizedDate = "2024-01-15",
          !.typeOfCargo = "CAR"],
      [NoShipment EXCEPT !.di = "DI-1", !.parametrization = "Green",
          !.uniqueDi = "No", !.diRegistrationDate = "2024-01-15",
          !.cargoPresenceDate = "2024-01-02T06:00",
          !.greenChannelOrDeliveryAuthorizedDate = "2024-01-03",
          !.nfIssueDate = "2024-01-03", !.actualEta = "",
          !.typeOfCargo = "BATTERY"],
      [NoShipment EXCEPT !.parametrization = "Yellow",
          !.diRegistrationDate = "2024-01-01",
          !.greenChannelOrDeliveryAuthorizedDate = "2024-01-03",
          !.actualEta = "2024-07-01", !.shipmentType = "FCL/LCL",
          !.bondedWarehouse = TPC],
      [NoShipment EXCEPT !.di = "DI-2", !.parametrization = "Gray",
          !.diRegistrationDate = "not a date", !.cargoPresenceDate = "2024-01-01",
          !.greenChannelOrDeliveryAuthorizedDate = "2024-01-03",
          !.actualEta = "not a date", !.typeOfCargo = "CAR"] }

PerfLoaded == ShipmentsLoaded(PerfDocs, MaxShipments)

NextPerf == PerfLoaded \/ NavigateKpi \/ KpiClicks

SpecPerf == InitApp /\ [][NextPerf]_vars

\* the filtered records that carry a DI number and a recognized channel
WithDiAndChannel(fs) ==
    SelectSeq(fs, LAMBDA s : ~Falsy(s.di) /\ s.parametrization \in Range(ChannelGroups))

\* C4: in the DI parametrization breakdown a DI number on several filtered
\* rows counts once: the Green, Yellow and Red values add up to the number
\* of distinct DI numbers among the filtered records that have a DI and a
\* recognized channel.
C4_DistinctDIs ==
    OnPerformance =>
        SumValues(diParamData(Perf_filtered))
            = Cardinality({ s.di : s \in Range(WithDiAndChannel(Perf_filtered)) })

\* C5: in the monthly DI registration counts a DI number on several
\* filtered rows counts once: the 12 monthly values add up to the number of
\* distinct DI numbers among the filtered records that have a DI number.
C5_DistinctDIs ==
    OnPerformance =>
        SumSeq(disPerMonth(Perf_filtered).datasets[1].data)
            = Cardinality({ s.di : s \in { r \in Range(Perf_filtered) : ~Falsy(r.di) } })

\* the month (0..11) a filtered record of the Performance view falls in
RegistrationMonth(s) == GetMonth(NewDate(s.diRegistrationDate))

\* the day-differences metric x takes from the records of fs
DaysOf(fs, x) ==
    [i \in DOMAIN fs |-> calculateDaysBetween(fs[i][MetricFrom[x]], fs[i][MetricTo[x]]).v]

\* v is the mean of the whole numbers of arr rounded to the nearest integer
\* (a half rounds up), 0 for no number
IsRoundedMean(v, arr) ==
    IF Len(arr) = 0 THEN v = 0
    ELSE /\ 2 * Len(arr) * v <= 2 * SumSeq(arr) + Len(arr)
         /\ 2 * SumSeq(arr) + Len(arr) < 2 * Len(arr) * (v + 1)

\* Each plotted value of lineChartData is the rounded mean over the records
\* of base that fall in the month and have both endpoint dates of the
\* metric present and parseable, and the point lists exactly those records.
MeansOver(base) ==
    LET chart == lineChartData(Perf_filtered)
    IN  \A x \in Metrics : \A m \in MonthSlots :
            LET measured ==
                    SelectSeq(base, LAMBDA s :
                        /\ RegistrationMonth(s) = m - 1
                        /\ ~Unusable(s[MetricFrom[x]])
                        /\ ~Unusable(s[MetricTo[x]]))
            IN  /\ IsRoundedMean(chart[x][m].value, DaysOf(measured, x))
                /\ chart[x][m].shipments = measured

\* C8 as stated: for each duration metric and calendar month the plotted
\* value is the mean, rounded to the nearest integer, of the
\* day-differences of exactly those filtered records of the month whose two
\* endpoint dates are present and parseable; other records are left out
\* and a month without such a record reports 0.
C8_MeanOfAllFiltered == OnPerformance => MeansOver(Perf_filtered)

\* C8 as amended: the same over the filtered records that are not marked
\* uniqueDi = 'Yes'.
C8_MeanOfNotUniqueDi ==
    OnPerformance => MeansOver(SelectSeq(Perf_filtered, LAMBDA s : s.uniqueDi # "Yes"))

\* two January records measure 2 and 1 days of clearance, plotted as 2; the
\* NF date of the one is unparseable, so NF issue time plots the other's 0
\* days alone
C8_Witness ==
    /\ OnPerformance
    /\ Len(Perf_filtered) = 2
    /\ lineChartData(Perf_filtered)["clearance"][1].value = 2
    /\ Len(lineChartData(Perf_filtered)["clearance"][1].shipments) = 2
    /\ Len(lineChartData(Perf_filtered)["nf"][1].shipments) = 1
    /\ lineChartData(Perf_filtered)["delivery"][1].value = 0

\* C9: each month-bucketed series (the four duration series, the monthly DI
\* registrations) has exactly 12 entries and each dataset of the Cargo
\* Volume chart exactly 6 (July..December); a bucket no record contributes
\* to holds 0.
C9_SeriesLengths ==
    /\ OnPerformance =>
        LET chart == lineChartData(Perf_filtered)
            perMonth == disPerMonth(Perf_filtered).datasets
            monthsOf == { RegistrationMonth(s) : s \in Range(Perf_filtered) }
            monthsOfDIs ==
                { RegistrationMonth(s) : s \in { r \in Range(Perf_filtered) : ~Falsy(r.di) } }
        IN  /\ \A x \in Metrics :
                /\ Len(chart[x]) = 12
                /\ \A m \in 1..12 : (m - 1) \notin monthsOf => chart[x][m].value = 0
            /\ Len(perMonth) = 1
            /\ Len(perMonth[1].data) = 12
            /\ \A m \in 1..12 : (m - 1) \notin monthsOfDIs => perMonth[1].data[m] = 0
    /\ OnCargosInTransit =>
        \A d \in Range(cargoVolumeDataStack(CIT_filtered).datasets) :
            /\ Len(d.data) = 6
            /\ \A m \in 1..6 :
                (\A s \in Range(CIT_filtered) :
                    \/ GetMonth(NewDate(s.actualEta)) # m + 5
                    \/ normalizeTerminalName(s.bondedWarehouse) # d.label
                    \/ ~IsFCL(s))
                    => d.data[m] = 0

\* the Cargo Volume chart holds a dataset with a month that counts
\* containers and five months without a record
C9_Witness ==
    /\ OnCargosInTransit
    /\ \E d \in Range(cargoVolumeDataStack(CIT_filtered).datasets) :
        /\ Len(d.data) = 6
        /\ d.data[6] = 2
        /\ \A m \in 1..5 : d.data[m] = 0

\* the positions of ships the filter, read on dateField, lets through
Matching(ships, dateField) ==
    { i \in DOMAIN ships :
        LET s == ships[i]
        IN  /\ kpiFilters.cargo = <<>> \/ s.typeOfCargo \in Range(kpiFilters.cargo)
            /\ s[dateField] # Undefined
            /\ s[dateField] # ""
            /\ NewDate(s[dateField]).valid
            /\ kpiFilters.year # All =>
                GetFullYear(NewDate(s[dateField])) = kpiFilters.year
            /\ kpiFilters.month # All =>
                GetMonth(NewDate(s[dateField])) = kpiFilters.month }

\* filtered holds the records of ships at the positions keep, in order
IsSelection(filtered, ships, keep) ==
    /\ Len(filtered) = Cardinality(keep)
    /\ \A k \in DOMAIN filtered :
        \E i \in keep :
            /\ Cardinality({ j \in keep : j <= i }) = k
            /\ filtered[k] = ships[i]

\* C10: in each KPI view a record is in the filtered set iff its cargo type
\* is in the filter's cargo set or that set is empty, its reference date
\* (ETA; DI-registration date on Performance) is present and parses to a
\* valid date, and the date's year and month equal the filter's unless
\* these are 'All'; a record without a parseable reference date is excluded
\* also under 'All'/'All'; the filtered set keeps the order of the sequence.
C10_FilterMembership ==
    /\ OnCargosInTransit =>
        IsSelection(CIT_filtered, shipments, Matching(shipments, "actualEta"))
    /\ OnOperationStatus =>
        IsSelection(Op_filtered, shipments, Matching(shipments, "actualEta"))
    /\ OnPerformance =>
        IsSelection(Perf_filtered, shipments, Matching(shipments, "diRegistrationDate"))

\* with year and month 'All' a record whose registration date does not
\* parse is left out and the dated record after it is kept
C10_Witness ==
    /\ OnPerformance
    /\ kpiFilters.year = All
    /\ kpiFilters.month = All
    /\ Len(shipments) = 2
    /\ shipments[1].diRegistrationDate = "not a date"
    /\ Perf_filtered = <<shipments[2]>>

---------------------------------------------------------------------------
(* BrokerageKPIsPage: the filter and the DI channel aggregate *)

\* String.prototype.toUpperCase, per character
UpperOf ==
    ( "a" :> "A" @@ "c" :> "C" @@ "e" :> "E" @@ "i" :> "I" @@ "l" :> "L" @@
      "m" :> "M" @@ "n" :> "N" @@ "o" :> "O" @@ "p" :> "P" @@ "r" :> "R" @@
      "s" :> "S" @@ "t" :> "T" @@ "x" :> "X" @@ "ó" :> "Ó" @@ "í" :> "Í" )

\* \w of a regular expression without the u flag: ASCII letters, digits, _
WordChar(c) ==
    c \in { "a", "c", "e", "i", "l", "m", "n", "o", "p", "r", "s", "t", "x",
            "A", "C", "E", "I", "L", "M", "N", "O", "P", "R", "S", "T", "X",
            "0", "1", "2", "_" }

\* \s
WhiteSpace(c) == c = " "

\* str.replace(/\w\S*/g, txt => txt.charAt(0).toUpperCase() +
\* txt.substr(1).toLowerCase()): a match starts at the first word character
\* outside a match and runs to the next white space
toTitleCase(str) ==
    IF str = UndefinedName \/ str = <<>> THEN <<>>
    ELSE LET inMatch[i \in 0..Len(str)] ==
                 IF i = 0 THEN FALSE
                 ELSE IF WhiteSpace(str[i]) THEN FALSE
                 ELSE inMatch[i - 1] \/ WordChar(str[i])
         IN  [i \in DOMAIN str |->
                 IF ~inMatch[i] THEN str[i]
                 ELSE IF ~inMatch[i - 1]
                      THEN IF str[i] \in DOMAIN UpperOf THEN UpperOf[str[i]] ELSE str[i]
                      ELSE IF str[i] \in DOMAIN LowerOf THEN LowerOf[str[i]] ELSE str[i]]

\* BrokerageKPIFilter: the options of the four selects, as their values
analysts(ships) ==
    {AllName} \cup
    { toTitleCase(ships[i].technicianResponsibleBrazil) :
        i \in { j \in DOMAIN ships :
                    /\ ships[j].technicianResponsibleBrazil # UndefinedName
                    /\ ships[j].technicianResponsibleBrazil # <<>> } }

years(ships) == {"All"} \cup { ToString(y) : y \in YearsOf(ships, "diRegistrationDate") }

cargos(ships) == {"All"} \cup cargoTypes(ships)

\* the months offered are 'All' and '1'..'12'; these are the ones chosen
BrokMonthChoices == {"All", "1", "2", "12"}

\* BrokerageKPIsPage.filteredShipments
Brok_filteredShipments(ships, filters) ==
    SelectSeq(ships, LAMBDA s :
        IF Falsy(s.diRegistrationDate) THEN FALSE
        ELSE LET shipDate == NewDate(s.diRegistrationDate)
             IN  IF IsNaNTime(shipDate) THEN FALSE
                 ELSE LET yearMatch ==
                              \/ filters.year = "All"
                              \/ ToString(GetFullYear(shipDate)) = filters.year
                          monthMatch ==
                              \/ filters.month = "All"
                              \/ ToString(GetMonth(shipDate) + 1) = filters.month
                          analystMatch ==
                              \/ filters.analyst = AllName
                              \/ toTitleCase(s.technicianResponsibleBrazil) = filters.analyst
                          cargoMatch ==
                              \/ filters.cargo = "All"
                              \/ s.typeOfCargo = filters.cargo
                      IN  yearMatch /\ monthMatch /\ analystMatch /\ cargoMatch)

\* every DI number kept: uniqueDIs an array, add() a push()
diChannelData_perRow(fs) ==
    LET groups[i \in 0..Len(fs)] ==
            IF i = 0
            THEN [l \in Range(ChannelGroups) |-> [shipments |-> <<>>, uniqueDIs |-> <<>>]]
            ELSE LET s == fs[i]
                     g == groups[i - 1]
                 IN  IF ~Falsy(s.parametrization) /\ s.parametrization \in DOMAIN g
                     THEN [g EXCEPT ![s.parametrization] =
                            [shipments |-> Append(@.shipments, s),
                             uniqueDIs |-> IF ~Falsy(s.di)
                                           THEN Append(@.uniqueDIs, s.di)
                                           ELSE @.uniqueDIs]]
                     ELSE g
        final == groups[Len(fs)]
    IN  [k \in 1..Len(ChannelGroups) |->
            [label |-> ChannelGroups[k],
             value |-> Len(final[ChannelGroups[k]].shipments),
             secondaryValue |-> Len(final[ChannelGroups[k]].uniqueDIs),
             shipments |-> final[ChannelGroups[k]].shipments]]

diChannelData(fs) ==
    LET groups[i \in 0..Len(fs)] ==
            IF i = 0
            THEN [l \in Range(ChannelGroups) |-> [shipments |-> <<>>, uniqueDIs |-> {}]]
            ELSE LET s == fs[i]
                     g == groups[i - 1]
                 IN  IF ~Falsy(s.parametrization) /\ s.parametrization \in DOMAIN g
                     THEN [g EXCEPT ![s.parametrization] =
                            [shipments |-> Append(@.shipments, s),
                             uniqueDIs |-> IF ~Falsy(s.di)
                                           THEN @.uniqueDIs \cup {s.di}
                                           ELSE @.uniqueDIs]]
                     ELSE g
        final == groups[Len(fs)]
    IN  [k \in 1..Len(ChannelGroups) |->
            [label |-> ChannelGroups[k],
             value |-> Len(final[ChannelGroups[k]].shipments),
             secondaryValue |-> Cardinality(final[ChannelGroups[k]].uniqueDIs),
             shipments |-> final[ChannelGroups[k]].shipments]]

\* handleFilterChange(filterName, value), called by the four selects with
\* the value of one of their options
handleFilterChange ==
    /\ activePage = "Brokerage KPIs"
    /\ \/ \E value \in years(shipments) : brokFilters' = [brokFilters EXCEPT !.year = value]
       \/ \E value \in BrokMonthChoices : brokFilters' = [brokFilters EXCEPT !.month = value]
       \/ \E value \in analysts(shipments) :
            brokFilters' = [brokFilters EXCEPT !.analyst = value]
       \/ \E value \in cargos(shipments) : brokFilters' = [brokFilters EXCEPT !.cargo = value]
    /\ UNCHANGED <<tz, shipments, activePage, kpiTab, kpiFilters, daysVars, termVars, parseVars, ioVars,
                   pageVars>>

Brok_filtered == Brok_filteredShipments(shipments, brokFilters)

---------------------------------------------------------------------------
(* The DI channel aggregates over shipments that share DI numbers and      *)
(* channels                                                                *)

MaxBrokShipments == 3

AnaLima == <<"a", "n", "a", " ", "l", "i", "m", "a">>
ANALIMA == <<"A", "N", "A", " ", "L", "I", "M", "A">>

BrokDocs ==
    { [NoShipment EXCEPT !.di = "DI-1", !.parametrization = "Green",
          !.diRegistrationDate = "2024-01-15", !.typeOfCargo = "BATTERY",
          !.technicianResponsibleBrazil = AnaLima],
      [NoShipment EXCEPT !.di = "DI-1", !.parametrization = "Green",
          !.diRegistrationDate = "2024-02-10", !.typeOfCargo = "CAR",
          !.technicianResponsibleBrazil = ANALIMA],
      [NoShipment EXCEPT !.di = "DI-2", !.parametrization = "Red",
          !.diRegistrationDate = "2024-01-01", !.typeOfCargo = "CAR",
          !.technicianResponsibleBrazil = <<"a", "l", "l">>],
      [NoShipment EXCEPT !.di = "", !.parametrization = "Green",
          !.diRegistrationDate = "2024-01-15"] }

BrokLoaded == ShipmentsLoaded(BrokDocs, MaxBrokShipments)

NavigateBrok ==
    \/ handleNavigate("Brokerage KPIs")
    \/ handleNavigate("KPIs")
    \/ handleNavigate("Dashboard")

NextBrok == BrokLoaded \/ NavigateBrok \/ setActiveTab \/ handleFilterChange

SpecBrok == InitApp /\ [][NextBrok]_vars

OnBrokerage == activePage = "Brokerage KPIs"

\* fs without its entries at the positions i < j
Without(fs, i, j) ==
    [k \in 1..(Len(fs) - 2) |->
        fs[IF k < i THEN k ELSE IF k + 1 < j THEN k + 1 ELSE k + 2]]

\* the pairs of positions of fs whose records carry the same DI number and
\* the same channel Green, Yellow or Red
SameDiAndChannel(fs) ==
    { p \in (DOMAIN fs) \X (DOMAIN fs) :
        /\ p[1] < p[2]
        /\ ~Falsy(fs[p[1]].di)
        /\ fs[p[1]].di = fs[p[2]].di
        /\ fs[p[1]].parametrization \in Range(ChannelGroups)
        /\ fs[p[1]].parametrization = fs[p[2]].parametrization }

\* the records of fs in the channel's bucket that carry the DI number
InBucket(fs, channel, di) ==
    { k \in DOMAIN fs : fs[k].parametrization = channel /\ fs[k].di = di }

\* C3 as stated: in the DI channel aggregate two filtered records with the
\* same DI number and the same channel (Green, Yellow or Red) raise the
\* bucket's unique-DI count by exactly 1 and its plain shipment count by
\* exactly 2 over the aggregate of the other filtered records.
C3_UniquePlusOne ==
    /\ OnBrokerage =>
        \A p \in SameDiAndChannel(Brok_filtered) :
            LET rest == Without(Brok_filtered, p[1], p[2])
                channel == Brok_filtered[p[1]].parametrization
                with == diChannelData(Brok_filtered)
                without == diChannelData(rest)
                k == IndexOfLabel(with, channel)
            IN  /\ with[k].secondaryValue = without[k].secondaryValue + 1
                /\ with[k].value = without[k].value + 2
    /\ OnPerformance =>
        \A p \in SameDiAndChannel(Perf_filtered) :
            LET rest == Without(Perf_filtered, p[1], p[2])
                channel == Perf_filtered[p[1]].parametrization
            IN  ValueOf(diParamData(Perf_filtered), channel)
                    = ValueOf(diParamData(rest), channel) + 1

\* C3 as amended: the two records raise the bucket's unique-DI count by
\* exactly 1 when no other filtered record of the bucket carries their DI
\* number and leave it unchanged when one does; the plain shipment count
\* rises by exactly 2.
C3_UniquePlusOneIfNew ==
    /\ OnBrokerage =>
        \A p \in SameDiAndChannel(Brok_filtered) :
            LET rest == Without(Brok_filtered, p[1], p[2])
                channel == Brok_filtered[p[1]].parametrization
                with == diChannelData(Brok_filtered)
                without == diChannelData(rest)
                k == IndexOfLabel(with, channel)
                new == InBucket(rest, channel, Brok_filtered[p[1]].di) = {}
            IN  /\ with[k].secondaryValue =
                        without[k].secondaryValue + (IF new THEN 1 ELSE 0)
                /\ with[k].value = without[k].value + 2
    /\ OnPerformance =>
        \A p \in SameDiAndChannel(Perf_filtered) :
            LET rest == Without(Perf_filtered, p[1], p[2])
                channel == Perf_filtered[p[1]].parametrization
                new == InBucket(rest, channel, Perf_filtered[p[1]].di) = {}
            IN  ValueOf(diParamData(Perf_filtered), channel)
                    = ValueOf(diParamData(rest), channel) + (IF new THEN 1 ELSE 0)

\* three records of DI-1 in Green, any two of them added to the third: the
\* bucket counts 3 shipments and 1 DI
C3_Witness ==
    /\ OnBrokerage
    /\ Len(Brok_filtered) = 3
    /\ Cardinality(SameDiAndChannel(Brok_filtered)) = 3
    /\ diChannelData(Brok_filtered)[1].value = 3
    /\ diChannelData(Brok_filtered)[1].secondaryValue = 1

---------------------------------------------------------------------------
(* App and UploadModal: sign-in, the fetch of the collection, the upload.  *)
(* The session is followed from the construction of App through the       *)
(* notifications of the authentication state to a signed-in user on the    *)
(* Imports page, who opens the upload modal; SpecModal follows the         *)
(* closing of the modal as well.  One upload attempt is followed at a      *)
(* time; leaving the Imports page, a sign-out or the selection of a file   *)
(* during an attempt are not followed.  Reading the file, the profile      *)
(* lookup, the commit and the fetches each end in one of their outcomes.   *)

MaxAuthEvents == 1
MaxUploads == 1

DataErrorText == "Failed to load shipment data."
ModalErrorText == "Failed to process the Excel file. Please check the format."
SuccessText(n) == ToString(n) \o " shipments processed successfully!"

\* shipment.blAwb.replace(/\//g, '-')
DocId(blAwb) ==
    Text([i \in DOMAIN Chars(blAwb) |-> IF Chars(blAwb)[i] = "/" THEN "-" ELSE Chars(blAwb)[i]])

\* the fields of a record that hold a value
DefinedFields(shipment) == { f \in DOMAIN shipment : shipment[f].t # "undefined" }

\* set(docRef, shipment, { merge: true }) on the fields stored under docRef
MergeInto(doc, shipment) ==
    [f \in DOMAIN doc \cup DefinedFields(shipment) |->
        IF f \in DefinedFields(shipment) THEN shipment[f] ELSE doc[f]]

\* each write replaces the document: set() without merge
Committed_overwrite(docs, writes) ==
    LET at[k \in 0..Len(writes)] ==
            IF k = 0 THEN docs
            ELSE The({ [d \in DOMAIN prev \cup {id} |->
                          IF d = id THEN MergeInto(<<>>, writes[k]) ELSE prev[d]] :
                        <<prev, id>> \in {at[k - 1]} \X {DocId(writes[k].blAwb.s)} })
    IN  at[Len(writes)]

\* batch.commit(): the writes applied in their order, all of them
Committed(docs, writes) ==
    LET at[k \in 0..Len(writes)] ==
            IF k = 0 THEN docs
            ELSE The({ [d \in DOMAIN prev \cup {id} |->
                          IF d = id
                          THEN MergeInto(IF id \in DOMAIN prev THEN prev[id] ELSE <<>>,
                                         writes[k])
                          ELSE prev[d]] :
                        <<prev, id>> \in {at[k - 1]} \X {DocId(writes[k].blAwb.s)} })
    IN  at[Len(writes)]

\* snapshot.docs.map(doc => ({ id: doc.id, ...doc.data() })), the documents
\* in the order of their ids
ShipmentsOf(docs) ==
    LET ids == SortNames({ Chars(d) : d \in DOMAIN docs })
    IN  [k \in DOMAIN ids |->
            LET id == Text(ids[k])
                data == docs[id]
            IN  [f \in {"id"} \cup DOMAIN data |->
                    IF f \in DOMAIN data THEN data[f] ELSE CellString(id)]]

OnImports == ~isLoading /\ user # NoUser /\ activePage = "Imports"

\* seq without its i-th element
Except(seq, i) == SubSeq(seq, 1, i - 1) \o SubSeq(seq, i + 1, Len(seq))

\* auth.onAuthStateChanged calls back, at most max times in all, for the
\* users of uids: the first notification reports the user or null, a later
\* one a change.  With a
\* user the profile is looked up, and the effect on [user] starts
\* fetchShipments; without one LoginPage replaces the pages, whose state is
\* lost.  A sign-out while an upload attempt is under way is not followed.
AuthNotified(uids, max) ==
    /\ authEvents < max
    /\ authEvents' = authEvents + 1
    /\ \E firebaseUser \in {NoUser} \cup uids :
        /\ authEvents > 0 => firebaseUser # user
        /\ IF firebaseUser # NoUser
           THEN /\ user' = firebaseUser
                /\ authLookup' = Append(authLookup, firebaseUser)
                /\ fetching' = Append(fetching, {store})
                /\ dataLoading' = TRUE
                /\ dataError' = ""
                /\ UNCHANGED <<userData, isLoading, uploadVars>>
           ELSE /\ uploadPc \in {"idle", "unread"}
                /\ user' = NoUser
                /\ userData' = Null
                /\ isLoading' = FALSE
                /\ isUploadModalOpen' = FALSE
                /\ file' = NoFile
                /\ isUploading' = FALSE
                /\ modalError' = ""
                /\ modalSuccess' = ""
                /\ uploadPc' = "idle"
                /\ UNCHANGED <<authLookup, fetchVars, isUploadModalOpen, batch, uploads>>
    /\ UNCHANGED <<tz, daysVars, termVars, appVars, parseVars, profiles, store, pageVars>>

AuthStateChanged == AuthNotified({"uid-1"}, MaxAuthEvents)

\* users/<uid>.get() resolves for one of the lookups awaited, with the
\* profile stored or without one
LookupResolved ==
    /\ \E i \in DOMAIN authLookup :
        /\ userData' = IF authLookup[i] \in DOMAIN profiles
                       THEN profiles[authLookup[i]]
                       ELSE DefaultProfile(authLookup[i])
        /\ authLookup' = Except(authLookup, i)
    /\ isLoading' = FALSE
    /\ UNCHANGED <<tz, daysVars, termVars, appVars, parseVars, user, profiles, authEvents,
                   fetchVars, store, uploadVars, pageVars>>

\* users/<uid>.get() rejects: the callback ends with the rejection
LookupRejected ==
    /\ \E i \in DOMAIN authLookup : authLookup' = Except(authLookup, i)
    /\ UNCHANGED <<tz, daysVars, termVars, appVars, parseVars, user, userData, profiles,
                   isLoading, authEvents, fetchVars, store, uploadVars, pageVars>>

\* fetchShipments: the collection arrives, as it was at some moment since
\* the get() was called
FetchResolved ==
    /\ \E i \in DOMAIN fetching :
        /\ \E snapshot \in fetching[i] : shipments' = ShipmentsOf(snapshot)
        /\ fetching' = Except(fetching, i)
    /\ dataLoading' = FALSE
    /\ UNCHANGED <<tz, daysVars, termVars, activePage, kpiTab, kpiFilters, brokFilters,
                   parseVars, authVars, dataError, store, uploadVars, pageVars>>

\* the catch empties the list
FetchRejected_clears ==
    /\ \E i \in DOMAIN fetching : fetching' = Except(fetching, i)
    /\ shipments' = <<>>
    /\ dataError' = DataErrorText
    /\ dataLoading' = FALSE
    /\ UNCHANGED <<tz, daysVars, termVars, activePage, kpiTab, kpiFilters, brokFilters,
                   parseVars, authVars, store, uploadVars, pageVars>>

\* fetchShipments: get() rejects
FetchRejected ==
    /\ \E i \in DOMAIN fetching : fetching' = Except(fetching, i)
    /\ dataError' = DataErrorText
    /\ dataLoading' = FALSE
    /\ UNCHANGED <<tz, daysVars, termVars, appVars, parseVars, authVars, store,
                   uploadVars, pageVars>>

\* the files the user may select: sheets as sheet_to_json(worksheet,
\* { header: 1 }) hands them over, and a file XLSX.read cannot read
Sheet(headers, rows) == [kind |-> "sheet", headers |-> headers, rows |-> rows]
CorruptFile == [kind |-> "corrupt", headers |-> <<>>, rows |-> <<>>]

Files ==
    { Sheet(<<CellString("BL/AWB"), CellString("ETA"), CellString("FCL"),
              CellString("Status")>>,
            << <<CellString("A/1")>>,
               <<CellUndefined, CellString("15/01/2024"), CellNumber(2),
                 CellString("IN TRANSIT")>> >>),
      Sheet(<<CellString("BL"), CellString("Status"), CellString("BL / AWB")>>,
            << <<CellString("X"), CellString("CARGO CLEARED"), CellString("A-1")>>,
               <<CellString("Y"), CellString("AT THE PORT")>>,
               <<CellString("Z"), CellString("AT THE PORT"), CellString("A/1")>> >>),
      Sheet(<<CellString("BL/AWB")>>, << <<CellNumber(0)>>, <<CellString("B/2")>> >>),
      Sheet(<<CellString("BL/AWB")>>, << <<CellNumber(12345)>> >>),
      Sheet(<<CellString("BL/AWB"), CellString("Responsible")>>,
            << <<CellString("A/1")>>, <<CellString("C/3"), CellString("ana")>> >>),
      Sheet(<<CellString("BL/AWB"), CellString("ETA")>>,
            << <<CellString("B/2"), CellNumber(1000000000)>> >>),
      CorruptFile }

\* the documents of the collection when the session starts: none, one
\* entered by hand, one left by an upload of an earlier session
StoredDocuments ==
    { NoDocuments,
      [k \in {"A-1"} |-> ("blAwb" :> CellString("A/1") @@
                          "status" :> CellString("IN TRANSIT") @@
                          "poSap" :> CellString("45")) ],
      [k \in {"B-2"} |-> ("id" :> CellString("row-0") @@
                          "blAwb" :> CellString("B/2")) ] }

\* the profiles of the collection 'users', which the program never writes
StoredProfiles ==
    { NoDocuments,
      [k \in {"uid-1"} |-> [name |-> "Ana", username |-> "ana@example.com",
                            role |-> "ADMIN"]] }

InitSession(stored) ==
    /\ tz = -3
    /\ AppIdle
    /\ DaysIdle
    /\ TermIdle
    /\ ParseIdle
    /\ PagesIdle
    /\ user = NoUser
    /\ userData = Null
    /\ profiles \in stored
    /\ isLoading = TRUE
    /\ authLookup = <<>>
    /\ authEvents = 0
    /\ fetching = <<>>
    /\ dataLoading = TRUE
    /\ dataError = ""
    /\ store \in StoredDocuments
    /\ UploadIdle

InitIo == InitSession({NoDocuments})

\* the signed-in user opens the Imports page
OpenImports ==
    /\ ~isLoading
    /\ user # NoUser
    /\ handleNavigate("Imports")

\* the Upload Excel button of the Imports page
setUploadModalOpen ==
    /\ OnImports
    /\ ~isUploadModalOpen
    /\ isUploadModalOpen' = TRUE
    /\ UNCHANGED <<tz, daysVars, termVars, appVars, parseVars, authVars, fetchVars,
                   store, file, isUploading, modalError, modalSuccess, uploadPc, batch,
                   uploads, pageVars>>

\* Cancel, the close button or the backdrop: resetState, then onClose; an
\* attempt under way goes on, one whose reader failed is over
handleClose ==
    /\ OnImports
    /\ isUploadModalOpen
    /\ file' = NoFile
    /\ isUploading' = FALSE
    /\ modalError' = ""
    /\ modalSuccess' = ""
    /\ isUploadModalOpen' = FALSE
    /\ uploadPc' = IF uploadPc = "unread" THEN "idle" ELSE uploadPc
    /\ UNCHANGED <<tz, daysVars, termVars, appVars, parseVars, authVars, fetchVars,
                   store, batch, uploads, pageVars>>

\* a file is selected between two attempts
handleFileChange ==
    /\ OnImports
    /\ isUploadModalOpen
    /\ uploadPc = "idle"
    /\ file' \in Files
    /\ modalError' = ""
    /\ modalSuccess' = ""
    /\ UNCHANGED <<tz, daysVars, termVars, appVars, parseVars, authVars, fetchVars,
                   store, isUploadModalOpen, isUploading, uploadPc, batch, uploads, pageVars>>

\* handleUpload up to reader.readAsArrayBuffer(file); the button is
\* disabled without a file and while isUploading
handleUpload ==
    /\ OnImports
    /\ isUploadModalOpen
    /\ uploadPc = "idle"
    /\ file # NoFile
    /\ ~isUploading
    /\ uploads < MaxUploads
    /\ uploads' = uploads + 1
    /\ isUploading' = TRUE
    /\ modalError' = ""
    /\ modalSuccess' = ""
    /\ uploadPc' = "reading"
    /\ batch' = [sheet |-> file, shipments |-> <<>>]
    /\ UNCHANGED <<tz, daysVars, termVars, appVars, parseVars, authVars, fetchVars,
                   store, isUploadModalOpen, file, pageVars>>

\* catch and finally of reader.onload
UploadCaught ==
    /\ modalError' = ModalErrorText
    /\ isUploading' = FALSE
    /\ uploadPc' = "idle"
    /\ UNCHANGED <<tz, daysVars, termVars, appVars, parseVars, authVars, fetchVars,
                   store, isUploadModalOpen, file, modalSuccess, batch, uploads, pageVars>>

\* batch.set(docRef, shipment, { merge: true }) for each record: replace is
\* no method of a reference that is a number; an undefined field value is
\* refused or left out, as the settings of ./firebase (not in src/) have it
BatchBuilt(records, refused) ==
    /\ \A k \in DOMAIN records : records[k].blAwb.t = "string"
    /\ ~(refused /\ \E k \in DOMAIN records : DefinedFields(records[k]) # DOMAIN records[k])

\* the records written one by one as the batch is built: those of a batch
\* that is then refused are stored already
ReaderOnload_writesAsItGoes ==
    /\ uploadPc = "reading"
    /\ \E refused \in BOOLEAN, mapped \in {shipmentsToUpload(batch.sheet)} :
            IF /\ batch.sheet.kind = "sheet"
               /\ ~mapped.threw
               /\ BatchBuilt(mapped.shipments, refused)
            THEN /\ batch' = [batch EXCEPT !.shipments = mapped.shipments]
                 /\ uploadPc' = "committing"
                 /\ UNCHANGED <<tz, daysVars, termVars, appVars, parseVars, authVars,
                                fetchVars, store, isUploadModalOpen, file, isUploading, modalError,
                                modalSuccess, uploads, pageVars>>
            ELSE /\ store' = IF /\ batch.sheet.kind = "sheet"
                                /\ ~mapped.threw
                                /\ BatchBuilt(mapped.shipments, FALSE)
                             THEN Committed(store, mapped.shipments)
                             ELSE store
                 /\ modalError' = ModalErrorText
                 /\ isUploading' = FALSE
                 /\ uploadPc' = "idle"
                 /\ UNCHANGED <<tz, daysVars, termVars, appVars, parseVars, authVars,
                                fetchVars, isUploadModalOpen, file, modalSuccess, batch, uploads, pageVars>>

\* reader.onload up to await batch.commit(): the workbook is read, the
\* rows are mapped, onUpload builds the batch
ReaderOnload ==
    /\ uploadPc = "reading"
    /\ \E refused \in BOOLEAN, mapped \in {shipmentsToUpload(batch.sheet)} :
            IF /\ batch.sheet.kind = "sheet"
               /\ ~mapped.threw
               /\ BatchBuilt(mapped.shipments, refused)
            THEN /\ batch' = [batch EXCEPT !.shipments = mapped.shipments]
                 /\ uploadPc' = "committing"
                 /\ UNCHANGED <<tz, daysVars, termVars, appVars, parseVars, authVars,
                                fetchVars, store, isUploadModalOpen, file, isUploading, modalError,
                                modalSuccess, uploads, pageVars>>
            ELSE UploadCaught

\* the FileReader fails: it has no onerror handler, nothing is called
ReaderError ==
    /\ uploadPc = "reading"
    /\ uploadPc' = "unread"
    /\ UNCHANGED <<tz, daysVars, termVars, appVars, parseVars, authVars, fetchVars,
                   store, isUploadModalOpen, file, isUploading, modalError, modalSuccess, batch, uploads, pageVars>>

\* batch.commit() resolves: the documents are written, and a get() under
\* way may answer with them
CommitResolved ==
    /\ uploadPc = "committing"
    /\ store' = Committed(store, batch.shipments)
    /\ fetching' = [i \in DOMAIN fetching |-> fetching[i] \cup {store'}]
    /\ uploadPc' = "refetching"
    /\ UNCHANGED <<tz, daysVars, termVars, appVars, parseVars, authVars, dataLoading,
                   dataError, isUploadModalOpen, file, isUploading, modalError,
                   modalSuccess, batch, uploads, pageVars>>

CommitRejected ==
    /\ uploadPc = "committing"
    /\ UploadCaught

\* the collection arrives: setShipments, then the success message
RefetchResolved ==
    /\ uploadPc = "refetching"
    /\ shipments' = ShipmentsOf(store)
    /\ modalSuccess' = SuccessText(Len(batch.shipments))
    /\ file' = NoFile
    /\ isUploading' = FALSE
    /\ uploadPc' = "idle"
    /\ UNCHANGED <<tz, daysVars, termVars, activePage, kpiTab, kpiFilters, brokFilters,
                   parseVars, authVars, fetchVars, store, isUploadModalOpen, modalError, batch, uploads, pageVars>>

RefetchRejected ==
    /\ uploadPc = "refetching"
    /\ UploadCaught

NextIo ==
    \/ AuthStateChanged
    \/ LookupResolved
    \/ LookupRejected
    \/ FetchResolved
    \/ FetchRejected
    \/ OpenImports
    \/ setUploadModalOpen
    \/ handleFileChange
    \/ handleUpload
    \/ ReaderOnload
    \/ ReaderError
    \/ CommitResolved
    \/ CommitRejected
    \/ RefetchResolved
    \/ RefetchRejected

SpecIo == InitIo /\ [][NextIo]_vars

\* the attempt under way reads, or has just handed over, a sheet that maps
\* without an error
SheetMapped ==
    /\ uploadPc \in {"reading", "committing"}
    /\ batch.sheet.kind = "sheet"
    /\ ~shipmentsToUpload(batch.sheet).threw

\* the rows of the sheet as the mapper leaves them, before the gate
MappedRows ==
    [r \in DOMAIN batch.sheet.rows |->
        MapRow(batch.sheet.headers, batch.sheet.rows[r], r - 1).shipment]

\* the records handed to onUpload are in the state once the batch is built
HandedOver ==
    uploadPc = "committing" => batch.shipments = shipmentsToUpload(batch.sheet).shipments

\* a value that is not empty: not undefined, not null, not ''
NonEmpty(v) == v.t \notin {"undefined", "null"} /\ v # CellString("")

\* C13 as stated: the mapper's output holds exactly one record for each data
\* row whose mapped reference (blAwb) is non-empty after all headers are
\* applied, in row order, and none for a row whose mapped reference is
\* empty.
C13_NonEmptyReference ==
    SheetMapped =>
        /\ \E mapped \in {MappedRows} :
              IsSelection(shipmentsToUpload(batch.sheet).shipments, mapped,
                          { r \in DOMAIN mapped : NonEmpty(Field(mapped[r], "blAwb")) })
        /\ HandedOver

\* C13 as amended: exactly one record for each data row whose mapped
\* reference is a non-empty string or a number other than 0, in row order,
\* and none for any other row.
C13_TruthyReference ==
    SheetMapped =>
        /\ \E mapped \in {MappedRows} :
              IsSelection(shipmentsToUpload(batch.sheet).shipments, mapped,
                          { r \in DOMAIN mapped :
                               LET ref == Field(mapped[r], "blAwb")
                               IN  \/ ref.t = "string" /\ ref.s # ""
                                   \/ ref.t = "number" /\ ref.n # 0 })
        /\ HandedOver

\* of a row with the reference 0 and a row with the reference B/2 the
\* second alone is handed to onUpload
C13_Witness ==
    /\ uploadPc = "committing"
    /\ Len(batch.sheet.rows) = 2
    /\ batch.sheet.rows[1] = <<CellNumber(0)>>
    /\ Len(batch.shipments) = 1
    /\ batch.shipments[1].blAwb = CellString("B/2")
    /\ batch.shipments[1].id = CellString("row-1")

\* the columns whose header is written 'BL/AWB'
ReferenceColumns ==
    { i \in DOMAIN batch.sheet.headers : batch.sheet.headers[i] = CellString("BL/AWB") }

\* the data rows in which a cell under a 'BL/AWB' header is populated and
\* every other cell is blank
ReferenceOnlyRows ==
    { r \in DOMAIN batch.sheet.rows :
        /\ \E i \in ReferenceColumns : NonEmpty(CellAt(batch.sheet.rows[r], i))
        /\ \A i \in DOMAIN batch.sheet.headers \ ReferenceColumns :
              CellAt(batch.sheet.rows[r], i) = CellUndefined }

\* the records of the output made of row r
RecordsOfRow(out, r) ==
    { k \in DOMAIN out : out[k].id = CellString("row-" \o ToString(r - 1)) }

\* the fields of the kind conv that some header of the sheet matches
HeaderFields(conv) ==
    { FieldRules[k].field : k \in
        { k \in DOMAIN FieldRules :
            /\ FieldRules[k].conv = conv
            /\ \E i \in DOMAIN batch.sheet.headers :
                  /\ batch.sheet.headers[i].t = "string"
                  /\ RuleMatches(FieldRules[k], HeaderKey(batch.sheet.headers[i].s)) } }

\* C14 as stated: a row in which only the cell under a 'BL/AWB' header is
\* populated yields exactly one output record, and in it the reference is
\* the only field set (the generated row id aside, every other field is
\* undefined).
C14_ReferenceOnlyField ==
    SheetMapped =>
        \A r \in ReferenceOnlyRows : \E out \in {shipmentsToUpload(batch.sheet).shipments} :
            /\ Cardinality(RecordsOfRow(out, r)) = 1
            /\ \A k \in RecordsOfRow(out, r) : DefinedFields(out[k]) \ {"id"} = {"blAwb"}

\* C14 as amended: when the 'BL/AWB' cell holds a non-empty string or a
\* number other than 0 and no column after it has a header containing 'bl',
\* the row yields exactly one record; in it id is 'row-N', blAwb is the cell
\* value, every date field with a header in the sheet is '', fcl and
\* invoiceValue are 0 when they have a header, and every other field is
\* undefined.
C14_ReferenceAndDefaults ==
    SheetMapped =>
        \A r \in ReferenceOnlyRows : \E out \in {shipmentsToUpload(batch.sheet).shipments} :
            LET last == Max(ReferenceColumns)
                ref  == CellAt(batch.sheet.rows[r], last)
            IN  /\ Truthy(ref)
                /\ \A i \in DOMAIN batch.sheet.headers :
                      i > last => ~RuleMatches(FieldRules[1], HeaderKey(batch.sheet.headers[i].s))
                => /\ Cardinality(RecordsOfRow(out, r)) = 1
                   /\ \A k \in RecordsOfRow(out, r) :
                        LET s == out[k]
                        IN  /\ DefinedFields(s) =
                                  {"id", "blAwb"} \cup HeaderFields("date")
                                                  \cup HeaderFields("number")
                            /\ s.blAwb = ref
                            /\ \A f \in HeaderFields("date") : s[f] = CellString("")
                            /\ \A f \in HeaderFields("number") : s[f] = CellNumber(0)
                            /\ HandedOver

\* the row A/1 of the sheet with the headers BL/AWB, ETA, FCL and Status is
\* handed to onUpload with the ETA '' and the FCL 0
C14_Witness ==
    /\ uploadPc = "committing"
    /\ 1 \in ReferenceOnlyRows
    /\ Len(batch.sheet.headers) = 4
    /\ batch.shipments[1].blAwb = CellString("A/1")
    /\ batch.shipments[1].actualEta = CellString("")
    /\ batch.shipments[1].fcl = CellNumber(0)
    /\ DefinedFields(batch.shipments[1]) = {"id", "blAwb", "actualEta", "fcl"}

\* the columns of the sheet whose header matches the rule
MatchingColumns(rule) ==
    { i \in DOMAIN batch.sheet.headers :
        /\ batch.sheet.headers[i].t = "string"
        /\ RuleMatches(rule, HeaderKey(batch.sheet.headers[i].s)) }

\* C15: in every mapped row, a field whose pattern is matched by two or more
\* headers holds the value made of the cell in the last of those columns,
\* and a field whose pattern no header matches is left undefined (absent
\* from the record); the records handed to onUpload are such rows.
C15_LaterColumnWins ==
    SheetMapped =>
        \E mapped \in {MappedRows} :
            /\ \A k \in DOMAIN FieldRules : \E cols \in {MatchingColumns(FieldRules[k])} :
                  \A r \in DOMAIN mapped :
                      IF cols = {}
                      THEN FieldRules[k].field \notin DOMAIN mapped[r]
                      ELSE /\ FieldRules[k].field \in DOMAIN mapped[r]
                           /\ mapped[r][FieldRules[k].field] =
                                  Converted(FieldRules[k].conv,
                                            CellAt(batch.sheet.rows[r], Max(cols))).v
            /\ uploadPc = "committing" =>
                  \A k \in DOMAIN batch.shipments :
                      \E r \in DOMAIN mapped : batch.shipments[k] = mapped[r]

\* of the row X, CARGO CLEARED, A-1 under the headers BL, Status and
\* BL / AWB the record handed to onUpload has the reference A-1, and no
\* ETA, for which the sheet has no header
C15_Witness ==
    /\ uploadPc = "committing"
    /\ Cardinality(MatchingColumns(FieldRules[1])) = 2
    /\ batch.sheet.rows[1][1] = CellString("X")
    /\ batch.shipments[1].blAwb = CellString("A-1")
    /\ "actualEta" \notin DOMAIN batch.shipments[1]

\* a step in which fetchShipments ends in its catch
FetchFails == FetchRejected

\* a step in which the upload ends in the catch of reader.onload after the
\* batch was built: batch.commit() or the get() after it rejected
UploadFailsAfterBuild ==
    /\ uploadPc \in {"committing", "refetching"}
    /\ uploadPc' = "idle"
    /\ modalSuccess' = ""

\* C16: the list of shipments starts empty; a fetch that fails leaves it as
\* it was and sets dataError; an upload that fails at batch.commit() or at
\* the get() after it leaves it as it was and sets the error of the modal.
\* A fetch never ends without either delivering the collection or setting
\* dataError.
C16_FailureKeepsShipments ==
    /\ shipments = <<>>
    /\ [][ /\ FetchFails => shipments' = shipments /\ dataError' # ""
           /\ UploadFailsAfterBuild => shipments' = shipments /\ modalError' # ""
           /\ Len(fetching') < Len(fetching) =>
                 \/ /\ \E i \in DOMAIN fetching : \E snapshot \in fetching[i] :
                          shipments' = ShipmentsOf(snapshot)
                    /\ dataError' = dataError
                 \/ FetchFails ]_vars

\* the get() after a commit that went through has failed: the error of the
\* modal is set and the list, loaded before, lacks the document just written
C16_Witness ==
    /\ uploadPc = "idle"
    /\ modalError = ModalErrorText
    /\ dataError = ""
    /\ shipments # <<>>
    /\ Len(shipments) < Cardinality(DOMAIN store)

\* the rows of the batch written under key that hold a value for field
Writers(key, field) ==
    { i \in DOMAIN batch.shipments :
        /\ DocId(batch.shipments[i].blAwb.s) = key
        /\ field \in DefinedFields(batch.shipments[i]) }

\* the keys the batch writes
WrittenKeys == { DocId(batch.shipments[i].blAwb.s) : i \in DOMAIN batch.shipments }

\* the fields some row of the batch writes under key
WrittenFields(key) ==
    UNION { IF DocId(batch.shipments[i].blAwb.s) = key
            THEN DefinedFields(batch.shipments[i]) ELSE {} : i \in DOMAIN batch.shipments }

\* C17: when batch.commit() goes through, every uploaded record has a
\* document under its blAwb with '/' replaced by '-'; each field of that
\* document holds the value of the last row of the batch that has one for
\* it under that key, or else the value stored before; the documents of
\* other keys are unchanged and no document is removed.
C17_MergedUnderReference ==
    [][ uploadPc = "committing" /\ uploadPc' = "refetching" =>
          /\ DOMAIN store' = DOMAIN store \cup WrittenKeys
          /\ \A key \in DOMAIN store \ WrittenKeys : store'[key] = store[key]
          /\ \A key \in WrittenKeys :
                LET before == IF key \in DOMAIN store THEN store[key] ELSE <<>>
                IN  /\ DOMAIN store'[key] = DOMAIN before \cup WrittenFields(key)
                    /\ \A f \in DOMAIN store'[key] :
                          store'[key][f] =
                              IF Writers(key, f) # {}
                              THEN batch.shipments[Max(Writers(key, f))][f]
                              ELSE before[f] ]_vars

\* the rows A-1 and A/1 were written over the stored document A-1: the
\* status and the reference of the later row, the PO stored before
C17_Witness ==
    /\ modalSuccess # ""
    /\ Len(batch.shipments) = 2
    /\ DOMAIN store = {"A-1"}
    /\ Field(store["A-1"], "poSap") = CellString("45")
    /\ Field(store["A-1"], "status") = CellString("AT THE PORT")
    /\ Field(store["A-1"], "blAwb") = CellString("A/1")

\* a step in which the upload ends in the catch of reader.onload before
\* batch.commit() is called: the workbook is not read, a row does not map,
\* or the batch is not built
UploadFailsBeforeCommit == uploadPc = "reading" /\ uploadPc' = "idle"

\* C18: an upload that fails before batch.commit() creates and changes no
\* document, leaves the list of shipments as it was, shows the error of the
\* modal and no success message. The batch is all or nothing: a commit that
\* is rejected writes nothing, and the documents change only in the step of
\* a commit that goes through, which writes every record of the batch.
C18_FailureWritesNothing ==
    [][ /\ UploadFailsBeforeCommit =>
              /\ store' = store
              /\ shipments' = shipments
              /\ modalError' # ""
              /\ modalSuccess' = ""
        /\ uploadPc = "committing" /\ uploadPc' = "idle" => store' = store
        /\ store' # store =>
              /\ uploadPc = "committing" /\ uploadPc' = "refetching"
              /\ WrittenKeys \subseteq DOMAIN store' ]_vars

\* the sheet whose reference is a number was read and mapped, the batch was
\* not built: the error is shown, nothing is stored
C18_Witness ==
    /\ uploadPc = "idle"
    /\ uploads = 1
    /\ batch.sheet.kind = "sheet"
    /\ batch.sheet.rows = << <<CellNumber(12345)>> >>
    /\ batch.shipments = <<>>
    /\ modalError = ModalErrorText
    /\ modalSuccess = ""
    /\ store \in StoredDocuments

(***************************************************************************)
(* Progress.  A promise that is pending settles and a FileReader that is   *)
(* reading ends, one way or the other; the first notification of           *)
(* onAuthStateChanged arrives.  Nothing obliges the user to act.           *)
(***************************************************************************)

LookupSettles == LookupResolved \/ LookupRejected
FetchSettles == FetchResolved \/ FetchRejected
ReaderEnds == ReaderError \/ ReaderOnload
CommitSettles == CommitResolved \/ CommitRejected
RefetchSettles == RefetchResolved \/ RefetchRejected

SpecIoFair ==
    /\ SpecIo
    /\ WF_vars(AuthStateChanged)
    /\ WF_vars(LookupSettles)
    /\ WF_vars(FetchSettles)
    /\ WF_vars(ReaderEnds)
    /\ WF_vars(CommitSettles)
    /\ WF_vars(RefetchSettles)

\* C19: every upload attempt that is started ends: isUploading is false
\* again and the success message or the error is shown, whatever the
\* outcome, a failure to read the file included.
C19_UploadEnds ==
    isUploading ~> (~isUploading /\ (modalSuccess # "" \/ modalError # ""))

\* C20: once the first notification of the authentication state has
\* arrived, isLoading becomes false, whatever the outcome of the lookup of
\* the profile, its failure included.
C20_LeavesLoading ==
    (authEvents >= 1) ~> ~isLoading


(***************************************************************************)
(* LineChart: the zoom window over the indices of the series               *)
(***************************************************************************)

MaxPoints == 12

\* { start: 0, end: data.length > 0 ? data.length - 1 : 0 }
FullRange(n) == [start |-> 0, end |-> IF n > 0 THEN n - 1 ELSE 0]

Min(a, b) == IF a < b THEN a ELSE b

\* the window narrowed down to one point: no floor of two
ZoomedIn_toOnePoint(prev, n) ==
    LET currentRange == prev.end - prev.start
        center == prev.start + currentRange \div 2
        newRange == CeilDiv(2 * currentRange, 3)
        newStart == Max({0, center - newRange \div 2})
        newEnd == Min(n - 1, newStart + newRange - 1)
    IN  IF currentRange < 1 THEN prev ELSE [start |-> newStart, end |-> newEnd]

\* the updater of handleZoomIn; Math.ceil(currentRange / 1.5) is the
\* ceiling of 2 * currentRange / 3
ZoomedIn(prev, n) ==
    LET currentRange == prev.end - prev.start
        center == prev.start + currentRange \div 2
        newRange == Max({2, CeilDiv(2 * currentRange, 3)})
        newStart == Max({0, center - newRange \div 2})
        newEnd == Min(n - 1, newStart + newRange - 1)
    IN  IF currentRange < 2 THEN prev ELSE [start |-> newStart, end |-> newEnd]

\* the updater of handleZoomOut; Math.floor(currentRange * 1.5) is the
\* floor of 3 * currentRange / 2
ZoomedOut(prev, n) ==
    LET currentRange == prev.end - prev.start
        center == prev.start + currentRange \div 2
        newRange == Min(n, (3 * currentRange) \div 2 + 1)
        newStart == Max({0, center - newRange \div 2})
        newEnd == Min(n - 1, newStart + newRange - 1)
    IN  IF currentRange >= n - 1 THEN prev
        ELSE [start |-> IF newEnd - newStart + 1 < newRange
                        THEN Max({0, newEnd - newRange + 1})
                        ELSE newStart,
              end |-> newEnd]

InitZoom ==
    /\ tz = 0
    /\ DaysIdle
    /\ TermIdle
    /\ AppIdle
    /\ ParseIdle
    /\ IoIdle
    /\ dataLength \in 0..MaxPoints
    /\ viewRange = FullRange(dataLength)
    /\ pageState = NoPageState
    /\ statusFilter = "All"
    /\ searchTerm = ""

\* the chart is given another series: the effect on [data] resets the window
SetData ==
    /\ dataLength' \in 0..MaxPoints
    /\ viewRange' = FullRange(dataLength')
    /\ UNCHANGED <<tz, daysVars, termVars, appVars, parseVars, ioVars, importsVars>>

handleZoomIn ==
    /\ viewRange' = ZoomedIn(viewRange, dataLength)
    /\ UNCHANGED <<tz, daysVars, termVars, appVars, parseVars, ioVars, dataLength,
                   importsVars>>

handleZoomOut ==
    /\ viewRange' = ZoomedOut(viewRange, dataLength)
    /\ UNCHANGED <<tz, daysVars, termVars, appVars, parseVars, ioVars, dataLength,
                   importsVars>>

handleResetZoom ==
    /\ viewRange' = FullRange(dataLength)
    /\ UNCHANGED <<tz, daysVars, termVars, appVars, parseVars, ioVars, dataLength,
                   importsVars>>

NextZoom == SetData \/ handleZoomIn \/ handleZoomOut \/ handleResetZoom

SpecZoom == InitZoom /\ [][NextZoom]_vars

\* the number of points in the window
Points(range) == range.end - range.start + 1

\* C22: for a series of n points the window satisfies
\* 0 <= start <= end <= max(n - 1, 0) after every sequence of zoom-in,
\* zoom-out and reset; with n >= 2 it holds at least 2 points; and the
\* window a zoom-in yields lies within the window it was applied to.
C22_WindowInSeries ==
    /\ 0 <= viewRange.start
    /\ viewRange.start <= viewRange.end
    /\ viewRange.end <= Max({dataLength - 1, 0})
    /\ dataLength >= 2 => Points(viewRange) >= 2
    /\ viewRange.start <= ZoomedIn(viewRange, dataLength).start
    /\ ZoomedIn(viewRange, dataLength).end <= viewRange.end

\* a window of 3 points inside a series of 12, reached by zooming in, that
\* zoom-in narrows further
C22_Witness ==
    /\ dataLength = 12
    /\ viewRange.start > 0
    /\ Points(viewRange) = 3
    /\ Points(ZoomedIn(viewRange, dataLength)) = 2

\* C23: a zoom-out applied to a reachable window smaller than the series
\* yields a window with more points, and never more than n (so repeating it
\* ends at the full series, which it leaves unchanged).
C23_ZoomOutGrows ==
    /\ Points(ZoomedOut(viewRange, dataLength)) <= Max({dataLength, 1})
    /\ ZoomedOut(FullRange(dataLength), dataLength) = FullRange(dataLength)
    /\ Points(viewRange) < dataLength =>
          Points(ZoomedOut(viewRange, dataLength)) > Points(viewRange)

---------------------------------------------------------------------------
(* DashboardPage: the Shipment Status doughnut, and the ImportsPage list   *)
(* its segments lead to                                                    *)

OrderPlaced == "ORDER PLACED"
InProgress == "IN TRANSIT"
AtPort == "AT THE PORT"
Delivered == "CARGO DELIVERED"

\* Object.values(ImportStatus)
ImportStatusValues ==
    { OrderPlaced, "SHIPMENT CONFIRMED", "DOCUMENT REVIEW", InProgress, AtPort,
      "DI REGISTERED", CargoReady, "CARGO CLEARED", Delivered, "VAZIAS" }

statusConfig ==
    << [label |-> "Order Placed", statuses |-> {OrderPlaced}],
       [label |-> "In Transit", statuses |-> {InProgress}],
       [label |-> "At Port", statuses |-> {AtPort, CargoReady}],
       [label |-> "Delivered", statuses |-> {Delivered}] >>

SegmentLabels == {statusConfig[i].label : i \in DOMAIN statusConfig}

MatchingConfig(list, config) ==
    SelectSeq(list, LAMBDA s : ~Falsy(s.status) /\ s.status \in config.statuses)

\* shipmentStatusData: per entry of statusConfig the shipments counted
shipmentStatusData(list) ==
    [i \in DOMAIN statusConfig |->
        [label |-> statusConfig[i].label,
         value |-> Len(MatchingConfig(list, statusConfig[i])),
         shipments |-> MatchingConfig(list, statusConfig[i])]]

\* DoughnutChart: sortedData, the segments drawn
sortedData(data) == {data[i] : i \in {j \in DOMAIN data : data[j].value > 0}}

\* the status filter handleSegmentClick hands to the Imports page
SegmentFilter(label) ==
    CASE label = "Order Placed" -> OrderPlaced
      [] label = "In Transit" -> InProgress
      [] label = "At Port" -> AtPort
      [] label = "Delivered" -> Delivered
      [] OTHER -> "All"

\* s.f && s.f.toLowerCase().includes(searchTerm.toLowerCase())
FieldIncludes(s, f, term) ==
    /\ f \in DOMAIN s
    /\ ~Falsy(s[f])
    /\ Includes(ToLowerCase(Chars(s[f])), ToLowerCase(Chars(term)))

\* ImportsPage: filteredShipments
filteredShipments(list, term, filter) ==
    SelectSeq(list, LAMBDA s :
        /\ \/ term = ""
           \/ FieldIncludes(s, "blAwb", term)
           \/ FieldIncludes(s, "description", term)
           \/ FieldIncludes(s, "typeOfCargo", term)
        /\ filter = "All" \/ s.status = filter)

\* a click on a drawn segment of the Shipment Status doughnut:
\* handleSegmentClick, then App's handleNavigate('Imports', { statusFilter }),
\* and ImportsPage mounts with initialFilters
handleSegmentClick(label) ==
    /\ ~isLoading
    /\ user # NoUser
    /\ activePage = "Dashboard"
    /\ \E item \in sortedData(shipmentStatusData(shipments)) : item.label = label
    /\ activePage' = "Imports"
    /\ pageState' = [statusFilter |-> SegmentFilter(label)]
    /\ statusFilter' = SegmentFilter(label)
    /\ searchTerm' = ""
    /\ kpiTab' = ""
    /\ kpiFilters' = NoKpiFilters
    /\ brokFilters' = NoBrokFilters
    /\ UNCHANGED <<tz, shipments, daysVars, termVars, parseVars, ioVars, zoomVars>>

SearchTerms == {"", "battery"}

\* the search input of the Imports page
setSearchTerm ==
    /\ ~isLoading
    /\ user # NoUser
    /\ activePage = "Imports"
    /\ \E term \in SearchTerms : searchTerm' = term
    /\ UNCHANGED <<tz, appVars, daysVars, termVars, parseVars, ioVars, zoomVars,
                   pageState, statusFilter>>

\* the status select of the Imports page
setStatusFilter ==
    /\ ~isLoading
    /\ user # NoUser
    /\ activePage = "Imports"
    /\ \E value \in {"All"} \cup ImportStatusValues : statusFilter' = value
    /\ UNCHANGED <<tz, appVars, daysVars, termVars, parseVars, ioVars, zoomVars,
                   pageState, searchTerm>>

DashDocs ==
    { [NoShipment EXCEPT !.status = OrderPlaced],
      [NoShipment EXCEPT !.status = InProgress, !.typeOfCargo = "BATTERY"],
      [NoShipment EXCEPT !.status = AtPort],
      [NoShipment EXCEPT !.status = CargoReady],
      [NoShipment EXCEPT !.status = Delivered],
      NoShipment }

DashLoaded == ShipmentsLoaded(DashDocs, MaxShipments)

SegmentClicks == \E label \in SegmentLabels : handleSegmentClick(label)

NavigateDash == handleNavigate("Dashboard") \/ handleNavigate("Imports")

NextDash ==
    \/ DashLoaded
    \/ SegmentClicks
    \/ NavigateDash
    \/ setSearchTerm
    \/ setStatusFilter

SpecDash == InitApp /\ [][NextDash]_vars

\* the shipments counted in the segment labelled label
SegmentShipments(label) ==
    The({item \in Range(shipmentStatusData(shipments)) : item.label = label}).shipments

\* the shipments the Imports page lists
ImportsListed == filteredShipments(shipments, searchTerm, statusFilter)

\* C29: a click on any segment of the Shipment Status doughnut leads to the
\* Imports page listing, with an empty search, exactly the shipments counted
\* in that segment
C29_SegmentListed ==
    [][\A label \in SegmentLabels :
          handleSegmentClick(label) =>
              /\ activePage' = "Imports"
              /\ searchTerm' = ""
              /\ ImportsListed' = SegmentShipments(label)]_vars

---------------------------------------------------------------------------
(* App: the session through sign-in, sign-out and the sign-in of another   *)
(* user, with the lookups of the profile and the fetches they start        *)

MaxSessionEvents == 3

SessionChanged == AuthNotified(DOMAIN FirebaseUsers, MaxSessionEvents)

NextAuth ==
    \/ SessionChanged
    \/ LookupResolved
    \/ LookupRejected
    \/ FetchResolved
    \/ FetchRejected

InitAuth == InitSession(StoredProfiles)

SpecAuth == InitAuth /\ [][NextAuth]_vars

\* the step is the lookup of the signed-in user's profile resolving
OwnLookupResolved ==
    /\ LookupResolved
    /\ \E i \in DOMAIN authLookup :
          authLookup[i] = user /\ authLookup' = Except(authLookup, i)

\* C21: when the lookup of the signed-in user's profile resolves and the
\* user has no document in 'users', the profile held is the default one:
\* its id is the user's id and its role is 'COMEX'; when the document exists
\* the profile held is the document's data.
C21_ProfileHeld ==
    [][ OwnLookupResolved =>
          IF user \in DOMAIN profiles
          THEN userData' = profiles[user]
          ELSE userData'.id = user /\ userData'.role = "COMEX" ]_vars

\* uid-2, who has no document while uid-1 has one, is signed in and holds
\* the default profile made of the account's name and address
C21_Witness ==
    /\ user = "uid-2"
    /\ authLookup = <<>>
    /\ ~isLoading
    /\ "uid-1" \in DOMAIN profiles
    /\ "uid-2" \notin DOMAIN profiles
    /\ userData = [id |-> "uid-2", name |-> "Bia", username |-> "bia@example.com",
                   role |-> "COMEX"]

\* C25: in every reachable state userData is non-null only while user is
\* non-null, and the profile held is that of the user signed in: the stored
\* profile, or the default one of a user who has none.
C25_ProfileOfUser ==
    userData # Null =>
        /\ user # NoUser
        /\ userData = IF user \in DOMAIN profiles THEN profiles[user]
                      ELSE DefaultProfile(user)

\* C26: whenever no user is signed in, the list of shipments is empty.
C26_SignedOutEmpty ==
    user = NoUser => shipments = <<>>

---------------------------------------------------------------------------
(* App: the list of shipments against the collection                      *)

\* no fetch and no upload is under way, the fetch of the signed-in user has
\* delivered the collection and the upload has ended with its success
\* message
AllCompleted ==
    /\ user # NoUser
    /\ fetching = <<>>
    /\ ~dataLoading
    /\ dataError = ""
    /\ uploadPc = "idle"
    /\ uploads > 0
    /\ modalSuccess # ""

\* C24: once every fetch and every upload under way has completed with
\* success, the list of shipments in memory is the content of the
\* collection, whatever the order in which they completed.
C24_ShipmentsAreStore ==
    AllCompleted => shipments = ShipmentsOf(store)

\* C27: the records in memory have pairwise distinct ids, and the id of
\* each is the key of the document of the collection it was read from.
C27_IdsAreKeys ==
    /\ \A i, j \in DOMAIN shipments : i # j => shipments[i].id # shipments[j].id
    /\ uploadPc \notin {"committing", "refetching"} /\ fetching = <<>> =>
          \A i \in DOMAIN shipments :
              /\ shipments[i].id.t = "string"
              /\ shipments[i].id.s \in DOMAIN store
              /\ \A f \in DOMAIN store[shipments[i].id.s] :
                    shipments[i][f] = store[shipments[i].id.s][f]

\* C28: two records of an upload whose references differ are written to
\* different documents.
C28_DistinctDocuments ==
    [][ uploadPc = "committing" /\ uploadPc' = "refetching" =>
          \A i, j \in DOMAIN batch.shipments :
              batch.shipments[i].blAwb # batch.shipments[j].blAwb =>
                  DocId(batch.shipments[i].blAwb.s) # DocId(batch.shipments[j].blAwb.s)
      ]_vars

NextModal == NextIo \/ handleClose

SpecModal == InitIo /\ [][NextModal]_vars

\* C30: while the upload modal is closed its state is the reset one: no
\* file, isUploading false, no error and no success message, also when an
\* upload was under way at the closing; and the error and the success
\* message are never set together.
C30_ClosedIsReset ==
    /\ ~isUploadModalOpen =>
          /\ file = NoFile
          /\ ~isUploading
          /\ modalError = ""
          /\ modalSuccess = ""
    /\ ~(modalError # "" /\ modalSuccess # "")

===========================================================================
